---- MODULE Spec2Model ----
(***************************************************************************)
(* ClawRouter routing core: the session store (src/src/session.ts), the    *)
(* rule classifier (src/src/router/rules.ts) and the fallback classifier   *)
(* (src/src/router/llm-classifier.ts).                                     *)
(*                                                                         *)
(* Time is counted in units of 30 minutes, so the default session timeout  *)
(* (30 * 60 * 1000 ms) is one unit.                                        *)
(***************************************************************************)
EXTENDS Integers, Sequences, FiniteSets, TLC

VARIABLES
    sessions,         \* SessionStore.sessions: Map<string, SessionEntry>
    enabled,          \* SessionStore.config.enabled
    tierConfigs,      \* the tier -> {primary, fallback} table handed to the store's callers
    now,              \* Date.now()
    cleanupInterval,  \* SessionStore.cleanupInterval is set (the sweep timer runs)
    ret,              \* the last store call and what it returned
    req,              \* the requests in flight and the position of each in its handler
    budget,           \* number of steps the run may still take
    rules,            \* the request given to the rule classifier and what it returned
    llm               \* the fallback classifier: its configuration and its cache

vars == <<sessions, enabled, tierConfigs, now, cleanupInterval, ret, req, budget, rules, llm>>

(***************************************************************************)
(* Bounds of the model.                                                    *)
(***************************************************************************)
MaxSteps == 6
MaxRequests == 4
MaxPrior == 2
MaxLen == 3
MaxClassifications == 3

(***************************************************************************)
(* Program constants.                                                      *)
(***************************************************************************)
TimeoutMs == 1
WindowSize == 3
StrikeTrigger == 2

SessionIds == {"s1", "s2"}
\* the ids pinned when the store is driven call by call; the other id stays unknown to it
PinnedIds == {"s1"}
EmptyId == ""
Hashes == {"aaa", "bbb"}

Tiers == {"SIMPLE", "MEDIUM", "COMPLEX", "REASONING"}
TIER_ORDER == <<"SIMPLE", "MEDIUM", "COMPLEX", "REASONING">>

\* Array.prototype.indexOf, 0-based, -1 when absent
IndexOf(seq, x) ==
    IF \E i \in 1..Len(seq) : seq[i] = x
    THEN (CHOOSE i \in 1..Len(seq) : seq[i] = x /\ \A j \in 1..(i - 1) : seq[j] # x) - 1
    ELSE -1

\* tier configuration of the store's own tests
TestTierConfigs ==
    [SIMPLE    |-> [primary |-> "cheap-model", fallback |-> <<>>],
     MEDIUM    |-> [primary |-> "moonshot/kimi-k2.5", fallback |-> <<"google/gemini-2.5-flash-lite">>],
     COMPLEX   |-> [primary |-> "anthropic/claude-sonnet-4", fallback |-> <<"openai/gpt-4o">>],
     REASONING |-> [primary |-> "anthropic/claude-opus-4", fallback |-> <<>>]]

\* the ECO profile: MEDIUM and COMPLEX are served by the same primary model
EcoTierConfigs ==
    [SIMPLE    |-> [primary |-> "nvidia/gpt-oss-120b", fallback |-> <<>>],
     MEDIUM    |-> [primary |-> "google/gemini-2.5-flash", fallback |-> <<>>],
     COMPLEX   |-> [primary |-> "google/gemini-2.5-flash", fallback |-> <<>>],
     REASONING |-> [primary |-> "xai/grok-4-1-fast-reasoning", fallback |-> <<>>]]

TierConfigChoices == {TestTierConfigs, EcoTierConfigs}

\* primary + ordered fallbacks of a tier
FallbackChain(cfg, tier) == <<cfg[tier].primary>> \o cfg[tier].fallback

Range(seq) == {seq[i] : i \in 1..Len(seq)}

(***************************************************************************)
(* SessionStore: every method as a function of the map (and the clock).    *)
(***************************************************************************)
\* variant: an entry idle for exactly the timeout counts as expired
Expired_AtTimeout(entry, t) == t - entry.lastUsedAt >= TimeoutMs

Expired(entry, t) == t - entry.lastUsedAt > TimeoutMs

Remove(S, sid) == [k \in (DOMAIN S) \ {sid} |-> S[k]]

Put(S, sid, entry) == [k \in (DOMAIN S) \cup {sid} |-> IF k = sid THEN entry ELSE S[k]]

Undefined == [undefined |-> TRUE]

\* variant: a look-up counts as a use of the session
GetSessionMap_Refreshes(S, en, sid, t) ==
    IF ~en \/ sid = EmptyId THEN S
    ELSE IF sid \notin DOMAIN S THEN S
    ELSE IF Expired(S[sid], t) THEN Remove(S, sid)
    ELSE Put(S, sid, [S[sid] EXCEPT !.lastUsedAt = t])

GetSessionMap(S, en, sid, t) ==
    IF ~en \/ sid = EmptyId THEN S
    ELSE IF sid \notin DOMAIN S THEN S
    ELSE IF Expired(S[sid], t) THEN Remove(S, sid)
    ELSE S

GetSessionRet(S, en, sid, t) ==
    IF ~en \/ sid = EmptyId THEN Undefined
    ELSE IF sid \notin DOMAIN S THEN Undefined
    ELSE IF Expired(S[sid], t) THEN Undefined
    ELSE S[sid]

\* variant: re-pinning to another model re-arms the escalation
SetSessionMap_RearmsEscalation(S, en, sid, model, tier, t) ==
    IF ~en \/ sid = EmptyId THEN S
    ELSE IF sid \in DOMAIN S
    THEN LET existing == S[sid]
             touched  == [existing EXCEPT !.lastUsedAt = t,
                                          !.requestCount = existing.requestCount + 1]
         IN  IF existing.model # model
             THEN Put(S, sid, [touched EXCEPT !.model = model, !.tier = tier, !.escalated = FALSE])
             ELSE Put(S, sid, touched)
    ELSE Put(S, sid, [model        |-> model,
                      tier         |-> tier,
                      createdAt    |-> t,
                      lastUsedAt   |-> t,
                      requestCount |-> 1,
                      recentHashes |-> <<>>,
                      strikes      |-> 0,
                      escalated    |-> FALSE])

SetSessionMap(S, en, sid, model, tier, t) ==
    IF ~en \/ sid = EmptyId THEN S
    ELSE IF sid \in DOMAIN S
    THEN LET existing == S[sid]
             touched  == [existing EXCEPT !.lastUsedAt = t,
                                          !.requestCount = existing.requestCount + 1]
         IN  IF existing.model # model
             THEN Put(S, sid, [touched EXCEPT !.model = model, !.tier = tier])
             ELSE Put(S, sid, touched)
    ELSE Put(S, sid, [model        |-> model,
                      tier         |-> tier,
                      createdAt    |-> t,
                      lastUsedAt   |-> t,
                      requestCount |-> 1,
                      recentHashes |-> <<>>,
                      strikes      |-> 0,
                      escalated    |-> FALSE])

TouchSessionMap(S, en, sid, t) ==
    IF ~en \/ sid = EmptyId THEN S
    ELSE IF sid \in DOMAIN S
    THEN Put(S, sid, [S[sid] EXCEPT !.lastUsedAt = t,
                                    !.requestCount = S[sid].requestCount + 1])
    ELSE S

\* variant: clearing one session id empties the store
ClearSessionMap_ClearsAll(S, sid) == <<>>

ClearSessionMap(S, sid) == Remove(S, sid)

ClearAllMap(S) == <<>>

\* variant: a pass of the sweep stops after the first entry it deletes
CleanupMap_OnePerPass(S, t) ==
    LET expired == {j \in DOMAIN S : Expired(S[j], t)}
    IN  IF expired = {} THEN S
        ELSE Remove(S, CHOOSE j \in expired : \A k \in expired : j = k \/ S[j].createdAt <= S[k].createdAt)

\* variant: the sweep measures a session's age from its creation
CleanupMap_ByCreation(S, t) == [k \in {j \in DOMAIN S : ~(t - S[j].createdAt > TimeoutMs)} |-> S[k]]

CleanupMap(S, t) == [k \in {j \in DOMAIN S : ~Expired(S[j], t)} |-> S[k]]

\* variant: a full window drops the fingerprint just recorded
RecordedEntry_DropsNewest(entry, hash) ==
    LET prev    == entry.recentHashes
        strikes == IF Len(prev) > 0 /\ prev[Len(prev)] = hash
                   THEN entry.strikes + 1
                   ELSE 0
        pushed  == Append(prev, hash)
        window  == IF Len(pushed) > WindowSize THEN SubSeq(pushed, 1, WindowSize) ELSE pushed
    IN  [entry EXCEPT !.strikes = strikes, !.recentHashes = window]

\* entry after recordRequestHash's update of strikes and of the sliding window
RecordedEntry(entry, hash) ==
    LET prev    == entry.recentHashes
        strikes == IF Len(prev) > 0 /\ prev[Len(prev)] = hash
                   THEN entry.strikes + 1
                   ELSE 0
        pushed  == Append(prev, hash)
        window  == IF Len(pushed) > WindowSize THEN Tail(pushed) ELSE pushed
    IN  [entry EXCEPT !.strikes = strikes, !.recentHashes = window]

RecordRequestHashMap(S, sid, hash) ==
    IF sid \notin DOMAIN S THEN S
    ELSE Put(S, sid, RecordedEntry(S[sid], hash))

\* variant: the trigger fires one repeat early
RecordRequestHashRet_OffByOne(S, sid, hash) ==
    IF sid \notin DOMAIN S THEN FALSE
    ELSE LET entry == RecordedEntry(S[sid], hash)
         IN  entry.strikes >= StrikeTrigger - 1 /\ ~entry.escalated

RecordRequestHashRet(S, sid, hash) ==
    IF sid \notin DOMAIN S THEN FALSE
    ELSE LET entry == RecordedEntry(S[sid], hash)
         IN  entry.strikes >= StrikeTrigger /\ ~entry.escalated

Null == [null |-> TRUE]

\* escalateSession returns null and changes nothing in these cases
EscalateRefused(S, sid, cfg) ==
    \/ sid \notin DOMAIN S
    \/ LET currentIdx == IndexOf(TIER_ORDER, S[sid].tier)
       IN  \/ currentIdx < 0
           \/ currentIdx >= Len(TIER_ORDER) - 1
           \/ TIER_ORDER[currentIdx + 2] \notin DOMAIN cfg

NextTier(tier) == TIER_ORDER[IndexOf(TIER_ORDER, tier) + 2]

\* variant: the escalation leaves the strike count as it was
EscalateSessionMap_KeepsStrikes(S, sid, cfg) ==
    IF EscalateRefused(S, sid, cfg) THEN S
    ELSE LET nextTier == NextTier(S[sid].tier)
         IN  Put(S, sid, [S[sid] EXCEPT !.model = cfg[nextTier].primary,
                                        !.tier = nextTier,
                                        !.escalated = TRUE])

\* variant: the escalation is not remembered
EscalateSessionMap_NoFlag(S, sid, cfg) ==
    IF EscalateRefused(S, sid, cfg) THEN S
    ELSE LET nextTier == NextTier(S[sid].tier)
         IN  Put(S, sid, [S[sid] EXCEPT !.model = cfg[nextTier].primary,
                                        !.tier = nextTier,
                                        !.strikes = 0])

\* variant: at the top of the tier order the escalation is refused after the reset
EscalateSessionMap_ResetsAtCeiling(S, sid, cfg) ==
    IF sid \in DOMAIN S /\ S[sid].tier = TIER_ORDER[Len(TIER_ORDER)]
    THEN Put(S, sid, [S[sid] EXCEPT !.strikes = 0, !.escalated = TRUE])
    ELSE IF EscalateRefused(S, sid, cfg) THEN S
    ELSE LET nextTier == NextTier(S[sid].tier)
         IN  Put(S, sid, [S[sid] EXCEPT !.model = cfg[nextTier].primary,
                                        !.tier = nextTier,
                                        !.strikes = 0,
                                        !.escalated = TRUE])

EscalateSessionMap(S, sid, cfg) ==
    IF EscalateRefused(S, sid, cfg) THEN S
    ELSE LET nextTier == NextTier(S[sid].tier)
         IN  Put(S, sid, [S[sid] EXCEPT !.model = cfg[nextTier].primary,
                                        !.tier = nextTier,
                                        !.strikes = 0,
                                        !.escalated = TRUE])

\* variant: the escalation reports the next tier with the model the session had
EscalateSessionRet_KeepsModel(S, sid, cfg) ==
    IF EscalateRefused(S, sid, cfg) THEN Null
    ELSE LET nextTier == NextTier(S[sid].tier)
         IN  [model |-> S[sid].model, tier |-> nextTier]

EscalateSessionRet(S, sid, cfg) ==
    IF EscalateRefused(S, sid, cfg) THEN Null
    ELSE LET nextTier == NextTier(S[sid].tier)
         IN  [model |-> cfg[nextTier].primary, tier |-> nextTier]

(***************************************************************************)
(* The store driven call by call: any sequence of calls of its public      *)
(* methods, of sweep passes and of clock ticks.                            *)
(***************************************************************************)
\* the classifiers when they take no part in a run
NoRules == [idle |-> TRUE]

NoLLM == [idle |-> TRUE]

\* ret after a call that returns nothing (and after time has passed)
NoRet == [op |-> "none", sid |-> EmptyId, val |-> Undefined]

\* every step counts against the length of the run, which caps the clock, requestCount and strikes
Step ==
    /\ budget > 0
    /\ budget' = budget - 1

\* the (model, tier) pairs a caller pins: a model out of the tier's fallback chain
Pins(cfg) == {p \in [model : UNION {Range(FallbackChain(cfg, t)) : t \in Tiers}, tier : Tiers] :
                 p.model \in Range(FallbackChain(cfg, p.tier))}

InitStore ==
    /\ sessions = <<>>
    /\ enabled \in BOOLEAN
    /\ tierConfigs \in TierConfigChoices
    /\ now = 0
    /\ cleanupInterval = enabled
    /\ ret = NoRet
    /\ budget = MaxSteps
    /\ rules = NoRules
    /\ llm = NoLLM

Init ==
    /\ InitStore
    /\ req = <<>>

GetSession(sid) ==
    /\ Step
    /\ sessions' = GetSessionMap(sessions, enabled, sid, now)
    /\ ret' = [op |-> "getSession", sid |-> sid, val |-> GetSessionRet(sessions, enabled, sid, now)]
    /\ UNCHANGED <<enabled, tierConfigs, now, cleanupInterval, req, rules, llm>>

SetSession(sid, model, tier) ==
    /\ Step
    /\ sessions' = SetSessionMap(sessions, enabled, sid, model, tier, now)
    /\ ret' = NoRet
    /\ UNCHANGED <<enabled, tierConfigs, now, cleanupInterval, req, rules, llm>>

TouchSession(sid) ==
    /\ Step
    /\ sessions' = TouchSessionMap(sessions, enabled, sid, now)
    /\ ret' = NoRet
    /\ UNCHANGED <<enabled, tierConfigs, now, cleanupInterval, req, rules, llm>>

ClearSession(sid) ==
    /\ Step
    /\ sessions' = ClearSessionMap(sessions, sid)
    /\ ret' = NoRet
    /\ UNCHANGED <<enabled, tierConfigs, now, cleanupInterval, req, rules, llm>>

ClearAll ==
    /\ Step
    /\ sessions' = ClearAllMap(sessions)
    /\ ret' = NoRet
    /\ UNCHANGED <<enabled, tierConfigs, now, cleanupInterval, req, rules, llm>>

\* one firing of the setInterval callback
Cleanup ==
    /\ Step
    /\ cleanupInterval
    /\ sessions' = CleanupMap(sessions, now)
    /\ ret' = NoRet
    /\ UNCHANGED <<enabled, tierConfigs, now, cleanupInterval, req, rules, llm>>

RecordRequestHash(sid, hash) ==
    /\ Step
    /\ sessions' = RecordRequestHashMap(sessions, sid, hash)
    /\ ret' = [op |-> "recordRequestHash", sid |-> sid,
               val |-> RecordRequestHashRet(sessions, sid, hash)]
    /\ UNCHANGED <<enabled, tierConfigs, now, cleanupInterval, req, rules, llm>>

EscalateSession(sid) ==
    /\ Step
    /\ sessions' = EscalateSessionMap(sessions, sid, tierConfigs)
    /\ ret' = [op |-> "escalateSession", sid |-> sid,
               val |-> EscalateSessionRet(sessions, sid, tierConfigs)]
    /\ UNCHANGED <<enabled, tierConfigs, now, cleanupInterval, req, rules, llm>>

Close ==
    /\ Step
    /\ cleanupInterval
    /\ cleanupInterval' = FALSE
    /\ ret' = NoRet
    /\ UNCHANGED <<sessions, enabled, tierConfigs, now, req, rules, llm>>

\* time passes between two calls: any amount up to just past the session timeout
Tick(d) ==
    /\ Step
    /\ now' = now + d
    /\ ret' = NoRet
    /\ UNCHANGED <<sessions, enabled, tierConfigs, cleanupInterval, req, rules, llm>>

Next ==
    \/ \E sid \in SessionIds \cup {EmptyId} : GetSession(sid)
    \/ \E sid \in PinnedIds \cup {EmptyId} : \E p \in Pins(tierConfigs) : SetSession(sid, p.model, p.tier)
    \/ \E sid \in SessionIds \cup {EmptyId} : TouchSession(sid)
    \/ \E sid \in SessionIds : ClearSession(sid)
    \/ ClearAll
    \/ Cleanup
    \/ \E sid \in SessionIds : \E hash \in Hashes : RecordRequestHash(sid, hash)
    \/ \E sid \in SessionIds : EscalateSession(sid)
    \/ Close
    \/ \E d \in 1..(TimeoutMs + 1) : Tick(d)

Spec == Init /\ [][Next]_vars

(***************************************************************************)
(* The request handler around the store (routing orchestrator, steps 5     *)
(* and 7): look up the pinned session, apply never-downgrade, record the   *)
(* request's fingerprint and escalate when the store says so.              *)
(***************************************************************************)
Rank(tier) == IndexOf(TIER_ORDER, tier)

IsEntry(x) == "model" \in DOMAIN x

\* never-downgrade: the store after the pinning step, given what the lookup returned
PinMap(S, en, cfg, sid, tier, existing, t) ==
    IF ~IsEntry(existing)
    THEN SetSessionMap(S, en, sid, cfg[tier].primary, tier, t)
    ELSE IF Rank(tier) > Rank(existing.tier)
    THEN SetSessionMap(S, en, sid, cfg[tier].primary, tier, t)
    ELSE TouchSessionMap(S, en, sid, t)

\* one request handled from lookup to response with no other request in between
Handle(S, en, cfg, sid, tier, hash, t) ==
    LET existing   == GetSessionRet(S, en, sid, t)
        S1         == GetSessionMap(S, en, sid, t)
        S2         == PinMap(S1, en, cfg, sid, tier, existing, t)
        triggered  == RecordRequestHashRet(S2, sid, hash)
        S3         == RecordRequestHashMap(S2, sid, hash)
        escalation == IF triggered THEN EscalateSessionRet(S3, sid, cfg) ELSE Null
        S4         == IF triggered THEN EscalateSessionMap(S3, sid, cfg) ELSE S3
        kept       == IsEntry(existing) /\ Rank(tier) <= Rank(existing.tier)
    IN  [sessions |-> S4,
         response |-> [op         |-> "request",
                       sid        |-> sid,
                       classified |-> tier,
                       hash       |-> hash,
                       existing   |-> existing,
                       afterPin   |-> IF sid \in DOMAIN S2 THEN S2[sid] ELSE Undefined,
                       triggered  |-> triggered,
                       escalation |-> escalation,
                       model      |-> IF escalation # Null THEN escalation.model
                                      ELSE IF kept THEN existing.model
                                      ELSE cfg[tier].primary,
                       tier       |-> IF escalation # Null THEN escalation.tier
                                      ELSE IF kept THEN existing.tier
                                      ELSE tier]]

InitSeq ==
    /\ sessions = <<>>
    /\ enabled = TRUE
    /\ tierConfigs \in TierConfigChoices
    /\ now = 0
    /\ cleanupInterval = TRUE
    /\ ret = NoRet
    /\ budget = MaxRequests
    /\ req = <<>>
    /\ rules = NoRules
    /\ llm = NoLLM

HandleRequest(sid, tier, hash) ==
    /\ Step
    /\ LET h == Handle(sessions, enabled, tierConfigs, sid, tier, hash, now)
       IN  /\ sessions' = h.sessions
           /\ ret' = h.response
    /\ UNCHANGED <<enabled, tierConfigs, now, cleanupInterval, req, rules, llm>>

NextSeq ==
    \/ \E sid \in SessionIds : \E tier \in Tiers : \E hash \in Hashes : HandleRequest(sid, tier, hash)
    \/ Cleanup
    \/ \E d \in 1..(TimeoutMs + 1) : Tick(d)

SpecSeq == InitSeq /\ [][NextSeq]_vars

(***************************************************************************)
(* Two requests in flight at once, their store calls interleaved call by   *)
(* call.  The session they meet is the one left by up to MaxPrior earlier  *)
(* requests handled one after the other.                                   *)
(***************************************************************************)
Requests == {"r1", "r2"}

RECURSIVE Prior(_, _, _, _)
Prior(k, cfg, tier, hash) ==
    IF k = 0 THEN <<>>
    ELSE Handle(Prior(k - 1, cfg, tier, hash), TRUE, cfg, "s1", tier, hash, 0).sessions

Idle == [pc |-> "idle", sid |-> EmptyId, tier |-> "SIMPLE", hash |-> "aaa",
         existing |-> Undefined, triggered |-> FALSE, escalation |-> Null]

InitConc ==
    /\ enabled = TRUE
    /\ tierConfigs = TestTierConfigs
    /\ \E k \in 0..MaxPrior : \E tier \in Tiers : \E hash \in Hashes :
           sessions = Prior(k, tierConfigs, tier, hash)
    /\ now = 0
    /\ cleanupInterval = TRUE
    /\ ret = NoRet
    /\ budget = 0
    /\ req = [r \in Requests |-> Idle]
    /\ rules = NoRules
    /\ llm = NoLLM

\* step 5, first half: look up the pinned tier
Lookup(r, sid, tier, hash) ==
    /\ req[r].pc = "idle"
    /\ sessions' = GetSessionMap(sessions, enabled, sid, now)
    /\ req' = [req EXCEPT ![r] = [Idle EXCEPT !.pc = "lookedUp", !.sid = sid, !.tier = tier,
                                               !.hash = hash,
                                               !.existing = GetSessionRet(sessions, enabled, sid, now)]]
    /\ UNCHANGED <<enabled, tierConfigs, now, cleanupInterval, ret, budget, rules, llm>>

\* step 5, second half: upgrade or keep, from the tier the lookup saw
Pin(r) ==
    /\ req[r].pc = "lookedUp"
    /\ sessions' = PinMap(sessions, enabled, tierConfigs, req[r].sid, req[r].tier, req[r].existing, now)
    /\ req' = [req EXCEPT ![r].pc = "pinned"]
    /\ UNCHANGED <<enabled, tierConfigs, now, cleanupInterval, ret, budget, rules, llm>>

\* step 7, first half: record the fingerprint
Record(r) ==
    /\ req[r].pc = "pinned"
    /\ sessions' = RecordRequestHashMap(sessions, req[r].sid, req[r].hash)
    /\ req' = [req EXCEPT ![r].pc = "recorded",
                          ![r].triggered = RecordRequestHashRet(sessions, req[r].sid, req[r].hash)]
    /\ UNCHANGED <<enabled, tierConfigs, now, cleanupInterval, ret, budget, rules, llm>>

\* step 7, second half: escalate when the store said so
Escalate(r) ==
    /\ req[r].pc = "recorded"
    /\ req[r].triggered
    /\ sessions' = EscalateSessionMap(sessions, req[r].sid, tierConfigs)
    /\ req' = [req EXCEPT ![r].pc = "done",
                          ![r].escalation = EscalateSessionRet(sessions, req[r].sid, tierConfigs)]
    /\ UNCHANGED <<enabled, tierConfigs, now, cleanupInterval, ret, budget, rules, llm>>

Respond(r) ==
    /\ req[r].pc = "recorded"
    /\ ~req[r].triggered
    /\ req' = [req EXCEPT ![r].pc = "done"]
    /\ UNCHANGED <<sessions, enabled, tierConfigs, now, cleanupInterval, ret, budget, rules, llm>>

NextConc ==
    \/ \E r \in Requests : \E sid \in SessionIds : \E tier \in Tiers : \E hash \in Hashes :
           Lookup(r, sid, tier, hash)
    \/ \E r \in Requests : Pin(r)
    \/ \E r \in Requests : Record(r)
    \/ \E r \in Requests : Escalate(r)
    \/ \E r \in Requests : Respond(r)

SpecConc == InitConc /\ [][NextConc]_vars

(***************************************************************************)
(* Texts.  A text is the sequence of its characters, so that includes(),   *)
(* the regular expressions and the case conversions work on what they work *)
(* on in the program.                                                      *)
(***************************************************************************)
Letters  == <<"a", "b", "c", "d", "e", "f", "g", "h", "i", "j", "k", "l", "m",
              "n", "o", "p", "q", "r", "s", "t", "u", "v", "w", "x", "y", "z">>
Capitals == <<"A", "B", "C", "D", "E", "F", "G", "H", "I", "J", "K", "L", "M",
              "N", "O", "P", "Q", "R", "S", "T", "U", "V", "W", "X", "Y", "Z">>
Digits == {"0", "1", "2", "3", "4", "5", "6", "7", "8", "9"}
Whitespace == {" ", "\n", "\t"}

\* the lower-case letter of every capital, and the capital of every lower-case letter
LowerOf == [c \in Range(Capitals) |-> Letters[CHOOSE k \in 1..Len(Capitals) : Capitals[k] = c]]

UpperOf == [c \in Range(Letters) |-> Capitals[CHOOSE k \in 1..Len(Letters) : Letters[k] = c]]

\* String.prototype.toLowerCase
ToLowerCase(text) ==
    [i \in 1..Len(text) |-> IF text[i] \in DOMAIN LowerOf THEN LowerOf[text[i]] ELSE text[i]]

\* String.prototype.toUpperCase
ToUpperCase(text) ==
    [i \in 1..Len(text) |-> IF text[i] \in DOMAIN UpperOf THEN UpperOf[text[i]] ELSE text[i]]

\* text has kw at (1-based) position i
At(text, i, kw) ==
    /\ i >= 1
    /\ i + Len(kw) - 1 <= Len(text)
    /\ \A k \in 1..Len(kw) : text[i + k - 1] = kw[k]

\* String.prototype.includes
Includes(text, kw) == \E i \in 1..(Len(text) - Len(kw) + 1) : At(text, i, kw)

RECURSIVE Concat(_)
Concat(parts) == IF parts = <<>> THEN <<>> ELSE Head(parts) \o Concat(Tail(parts))

Min(a, b) == IF a < b THEN a ELSE b
Max(a, b) == IF a > b THEN a ELSE b

\* Array.prototype.slice(0, n)
Slice(seq, n) == SubSeq(seq, 1, Min(n, Len(seq)))

(***************************************************************************)
(* The user prompts of the model: up to MaxLen fragments, concatenated.    *)
(***************************************************************************)
Fragments ==
    {<<"P", "r", "o", "v", "e", " ">>,
     <<"t", "h", "e", "o", "r", "e", "m", " ">>,
     <<"f", "o", "r", "m", "a", "l">>,
     <<"l", "y", " ">>,
     <<"s", "t", "e", "p", " ", "b", "y", " ">>,
     <<"s", "t", "e", "p", " ", "1", ".", " ">>,
     <<"w", "h", "a", "t", " ", "i", "s", " ">>,
     <<"f", "u", "n", "c", "t", "i", "o", "n", " ">>,
     <<"?", "?", "?", "?">>}

Prompts == {Concat(parts) : parts \in UNION {[1..n -> Fragments] : n \in 0..MaxLen}}

\* a system prompt full of boilerplate that would score, were it scored
BoilerplateSystemPrompt ==
    <<"P", "r", "o", "v", "e", " ", "t", "h", "e", " ", "t", "h", "e", "o", "r", "e", "m", " ", "s", "t", "e", "p", " ", "b", "y", " ", "s", "t", "e", "p", ".", " ", "f", "u", "n", "c", "t", "i", "o", "n", " ", "1", ".", " ">>

\* systemPrompt: string | undefined
SystemPrompts == {Undefined, [text |-> BoilerplateSystemPrompt]}

\* estimated tokens (system + user) handed to the classifier
TokenEstimates == {10, 100, 1000}

(***************************************************************************)
(* Scoring configuration (LITELLM_ROUTING_CONFIG.scoring).  Scores are in  *)
(* tenths, weights in hundredths, so weighted scores and tier boundaries   *)
(* are in thousandths; confidences are in ten-thousandths.  Of each keyword *)
(* list the model keeps, in order and with repetitions, the entries that a *)
(* text built from Fragments, from AgenticFragments or from                *)
(* TieringFragments can contain; no other entry can match.                 *)
(***************************************************************************)
ScoringConfig ==
    [tokenCountThresholds   |-> [simple |-> 50, complex |-> 500],
     codeKeywords           |-> << <<"f", "u", "n", "c", "t", "i", "o", "n">>, <<"c", "l", "a", "s", "s">>, <<"i", "m", "p", "o", "r", "t">> >>,
     reasoningKeywords      |-> << <<"p", "r", "o", "v", "e">>, <<"t", "h", "e", "o", "r", "e", "m">>, <<"s", "t", "e", "p", " ", "b", "y", " ", "s", "t", "e", "p">>,
                                  <<"f", "o", "r", "m", "a", "l", "l", "y">>, <<"t", "h", "e", "o", "r", "e", "m">>, <<"f", "o", "r", "m", "a", "l">> >>,
     simpleKeywords         |-> << <<"w", "h", "a", "t", " ", "i", "s">>, <<"c", "a", "p", "i", "t", "a", "l", " ", "o", "f">> >>,
     technicalKeywords      |-> << <<"a", "l", "g", "o", "r", "i", "t", "h", "m">>, <<"k", "u", "b", "e", "r", "n", "e", "t", "e", "s">>, <<"k", "u", "b", "e", "r", "n", "e", "t", "e", "s">> >>,
     creativeKeywords       |-> << <<"s", "t", "o", "r", "y">> >>,
     imperativeVerbs        |-> <<>>,
     constraintIndicators   |-> <<>>,
     outputFormatKeywords   |-> <<>>,
     referenceKeywords      |-> <<>>,
     negationKeywords       |-> <<>>,
     domainSpecificKeywords |-> << <<"q", "u", "a", "n", "t", "u", "m">>, <<"f", "p", "g", "a">> >>,
     agenticTaskKeywords    |-> << <<"i", "n", "s", "t", "a", "l", "l">>, <<"n", "p", "m">>, <<"s", "t", "e", "p", " ", "1">>,
                                  <<"f", "i", "x">>, <<"d", "e", "b", "u", "g">>, <<"v", "e", "r", "i", "f", "y">> >>,
     dimensionWeights       |-> [tokenCount |-> 8, codePresence |-> 14, reasoningMarkers |-> 17,
                                 technicalTerms |-> 10, creativeMarkers |-> 5, simpleIndicators |-> 2,
                                 multiStepPatterns |-> 12, questionComplexity |-> 5,
                                 imperativeVerbs |-> 3, constraintCount |-> 4, outputFormat |-> 3,
                                 referenceComplexity |-> 2, negationComplexity |-> 1,
                                 domainSpecificity |-> 2, agenticTask |-> 4, browserInteraction |-> 8],
     tierBoundaries         |-> [simpleMedium |-> 0, mediumComplex |-> 180, complexReasoning |-> 400],
     confidenceSteepness    |-> 12,
     confidenceThreshold    |-> 7000]

(***************************************************************************)
(* Rule classifier: the dimension scorers.                                 *)
(***************************************************************************)
scoreTokenCount(estimatedTokens, thresholds) ==
    IF estimatedTokens < thresholds.simple
    THEN [name |-> "tokenCount", score |-> -10,
          signal |-> [label |-> "short", tokens |-> estimatedTokens]]
    ELSE IF estimatedTokens > thresholds.complex
    THEN [name |-> "tokenCount", score |-> 10,
          signal |-> [label |-> "long", tokens |-> estimatedTokens]]
    ELSE [name |-> "tokenCount", score |-> 0, signal |-> Null]

\* keywords.filter((kw) => text.includes(kw.toLowerCase()))
Matches(text, keywords) ==
    LET Hit(kw) == Includes(text, ToLowerCase(kw))
    IN  SelectSeq(keywords, Hit)

scoreKeywordMatch(text, keywords, name, signalLabel, thresholds, scores) ==
    LET matches == Matches(text, keywords)
    IN  IF Len(matches) >= thresholds.high
        THEN [name |-> name, score |-> scores.high,
              signal |-> [label |-> signalLabel, matches |-> Slice(matches, 3)]]
        ELSE IF Len(matches) >= thresholds.low
        THEN [name |-> name, score |-> scores.low,
              signal |-> [label |-> signalLabel, matches |-> Slice(matches, 3)]]
        ELSE [name |-> name, score |-> scores.none, signal |-> Null]

\* /first.*then/i
FirstThen(text) ==
    LET t == ToLowerCase(text)
    IN  \E i \in 1..Len(t) :
            /\ At(t, i, <<"f", "i", "r", "s", "t">>)
            /\ \E j \in (i + 5)..Len(t) :
                   /\ At(t, j, <<"t", "h", "e", "n">>)
                   /\ \A k \in (i + 5)..(j - 1) : t[k] # "\n"

\* /step \d/i
StepDigit(text) ==
    LET t == ToLowerCase(text)
    IN  \E i \in 1..(Len(t) - 5) : At(t, i, <<"s", "t", "e", "p", " ">>) /\ t[i + 5] \in Digits

\* /\d\.\s/
NumberedItem(text) ==
    \E i \in 1..(Len(text) - 2) :
        text[i] \in Digits /\ text[i + 1] = "." /\ text[i + 2] \in Whitespace

scoreMultiStep(text) ==
    IF FirstThen(text) \/ StepDigit(text) \/ NumberedItem(text)
    THEN [name |-> "multiStepPatterns", score |-> 5, signal |-> [label |-> "multi-step"]]
    ELSE [name |-> "multiStepPatterns", score |-> 0, signal |-> Null]

scoreQuestionComplexity(prompt) ==
    LET count == Cardinality({i \in 1..Len(prompt) : prompt[i] = "?"})
    IN  IF count > 3
        THEN [name |-> "questionComplexity", score |-> 5,
              signal |-> [label |-> "questions", count |-> count]]
        ELSE [name |-> "questionComplexity", score |-> 0, signal |-> Null]

scoreAgenticTask(text, keywords) ==
    LET matches    == Matches(text, keywords)
        matchCount == Len(matches)
        signals    == Slice(matches, 3)
    IN  IF matchCount >= 4
        THEN [dimensionScore |-> [name |-> "agenticTask", score |-> 10,
                                  signal |-> [label |-> "agentic", matches |-> signals]],
              agenticScore |-> 10]
        ELSE IF matchCount >= 3
        THEN [dimensionScore |-> [name |-> "agenticTask", score |-> 6,
                                  signal |-> [label |-> "agentic", matches |-> signals]],
              agenticScore |-> 6]
        ELSE IF matchCount >= 1
        THEN [dimensionScore |-> [name |-> "agenticTask", score |-> 2,
                                  signal |-> [label |-> "agentic-light", matches |-> signals]],
              agenticScore |-> 2]
        ELSE [dimensionScore |-> [name |-> "agenticTask", score |-> 0, signal |-> Null],
              agenticScore |-> 0]

(***************************************************************************)
(* Rule classifier: confidence calibration and the classifier itself.      *)
(***************************************************************************)
\* one unit of confidence is 1 / ConfidenceScale
ConfidenceScale == 10000

\* e^-a, e^-(b/10), e^-(c/100) and e^-(d/1000) in units of 1 / ConfidenceScale, rounded,
\* and never 0 (Math.exp does not underflow on the arguments it gets here)
ExpUnits      == <<10000, 3679, 1353, 498, 183, 67, 25, 9, 3, 1, 1, 1, 1>>
ExpTenths     == <<10000, 9048, 8187, 7408, 6703, 6065, 5488, 4966, 4493, 4066>>
ExpHundredths == <<10000, 9900, 9802, 9704, 9608, 9512, 9418, 9324, 9231, 9139>>
ExpThousandths == <<10000, 9990, 9980, 9970, 9960, 9950, 9940, 9930, 9920, 9910>>

\* Math.exp(-x / 1000) for x >= 0
ExpNeg(x) ==
    LET a  == x \div 1000
        b  == (x % 1000) \div 100
        c  == (x % 100) \div 10
        d  == x % 10
        e1 == IF a + 1 <= Len(ExpUnits) THEN ExpUnits[a + 1] ELSE 1
        e2 == Max(1, (e1 * ExpTenths[b + 1]) \div ConfidenceScale)
        e3 == Max(1, (e2 * ExpHundredths[c + 1]) \div ConfidenceScale)
    IN  Max(1, (e3 * ExpThousandths[d + 1]) \div ConfidenceScale)

\* 1 / (1 + Math.exp(-steepness * distance)), distance in thousandths
calibrateConfidence(distance, steepness) ==
    LET x == steepness * distance
    IN  IF x >= 0
        THEN (ConfidenceScale * ConfidenceScale) \div (ConfidenceScale + ExpNeg(x))
        ELSE ConfidenceScale - (ConfidenceScale * ConfidenceScale) \div (ConfidenceScale + ExpNeg(-x))

\* the confidence floor of the reasoning override (0.85) and the floor of its sigmoid argument (0.3)
OverrideConfidence == 8500
OverrideDistance == 300

\* the tier of an ambiguous result
NullTier == "null"

\* variant: the system prompt is scored with the user prompt
UserText_WithSystemPrompt(prompt, systemPrompt) ==
    ToLowerCase((IF systemPrompt = Undefined THEN <<>> ELSE systemPrompt.text) \o prompt)

\* the text that is scored: the user prompt only
UserText(prompt, systemPrompt) == ToLowerCase(prompt)

\* variant: the override needs three markers
ReasoningOverride_ThreeMarkers(reasoningMatches) == Len(reasoningMatches) >= 3

\* the direct reasoning override applies
ReasoningOverride(reasoningMatches) == Len(reasoningMatches) >= 2

RECURSIVE WeightedScore(_, _)
WeightedScore(dimensions, weights) ==
    IF dimensions = <<>> THEN 0
    ELSE LET d == Head(dimensions)
             w == IF d.name \in DOMAIN weights THEN weights[d.name] ELSE 0
         IN  d.score * w + WeightedScore(Tail(dimensions), weights)

Dimensions(prompt, userText, estimatedTokens, config) ==
    <<scoreTokenCount(estimatedTokens, config.tokenCountThresholds),
      scoreKeywordMatch(userText, config.codeKeywords, "codePresence", "code",
                        [low |-> 1, high |-> 2], [none |-> 0, low |-> 5, high |-> 10]),
      scoreKeywordMatch(userText, config.reasoningKeywords, "reasoningMarkers", "reasoning",
                        [low |-> 1, high |-> 2], [none |-> 0, low |-> 7, high |-> 10]),
      scoreKeywordMatch(userText, config.technicalKeywords, "technicalTerms", "technical",
                        [low |-> 2, high |-> 4], [none |-> 0, low |-> 5, high |-> 10]),
      scoreKeywordMatch(userText, config.creativeKeywords, "creativeMarkers", "creative",
                        [low |-> 1, high |-> 2], [none |-> 0, low |-> 5, high |-> 7]),
      scoreKeywordMatch(userText, config.simpleKeywords, "simpleIndicators", "simple",
                        [low |-> 1, high |-> 2], [none |-> 0, low |-> -10, high |-> -10]),
      scoreMultiStep(userText),
      scoreQuestionComplexity(prompt),
      scoreKeywordMatch(userText, config.imperativeVerbs, "imperativeVerbs", "imperative",
                        [low |-> 1, high |-> 2], [none |-> 0, low |-> 3, high |-> 5]),
      scoreKeywordMatch(userText, config.constraintIndicators, "constraintCount", "constraints",
                        [low |-> 1, high |-> 3], [none |-> 0, low |-> 3, high |-> 7]),
      scoreKeywordMatch(userText, config.outputFormatKeywords, "outputFormat", "format",
                        [low |-> 1, high |-> 2], [none |-> 0, low |-> 4, high |-> 7]),
      scoreKeywordMatch(userText, config.referenceKeywords, "referenceComplexity", "references",
                        [low |-> 1, high |-> 2], [none |-> 0, low |-> 3, high |-> 5]),
      scoreKeywordMatch(userText, config.negationKeywords, "negationComplexity", "negation",
                        [low |-> 2, high |-> 3], [none |-> 0, low |-> 3, high |-> 5]),
      scoreKeywordMatch(userText, config.domainSpecificKeywords, "domainSpecificity", "domain-specific",
                        [low |-> 1, high |-> 2], [none |-> 0, low |-> 5, high |-> 8]),
      scoreAgenticTask(userText, config.agenticTaskKeywords).dimensionScore>>

\* dimensions.filter((d) => d.signal !== null).map((d) => d.signal)
Signals(dimensions) ==
    LET signalled == SelectSeq(dimensions, LAMBDA d : d.signal # Null)
    IN  [i \in 1..Len(signalled) |-> signalled[i].signal]

\* the tier of a weighted score and its distance from the nearest boundary
\* variant: below the first boundary the distance keeps the sign of the difference
BoundaryTier_SignedDistance(weightedScore, boundaries) ==
    IF weightedScore < boundaries.simpleMedium
    THEN [tier |-> "SIMPLE", distance |-> weightedScore - boundaries.simpleMedium]
    ELSE IF weightedScore < boundaries.mediumComplex
    THEN [tier |-> "MEDIUM",
          distance |-> Min(weightedScore - boundaries.simpleMedium,
                           boundaries.mediumComplex - weightedScore)]
    ELSE IF weightedScore < boundaries.complexReasoning
    THEN [tier |-> "COMPLEX",
          distance |-> Min(weightedScore - boundaries.mediumComplex,
                           boundaries.complexReasoning - weightedScore)]
    ELSE [tier |-> "REASONING", distance |-> weightedScore - boundaries.complexReasoning]

\* variant: every score from mediumComplex up is mapped to REASONING
BoundaryTier_SkipsComplex(weightedScore, boundaries) ==
    IF weightedScore < boundaries.simpleMedium
    THEN [tier |-> "SIMPLE", distance |-> boundaries.simpleMedium - weightedScore]
    ELSE IF weightedScore < boundaries.mediumComplex
    THEN [tier |-> "MEDIUM",
          distance |-> Min(weightedScore - boundaries.simpleMedium,
                           boundaries.mediumComplex - weightedScore)]
    ELSE [tier |-> "REASONING", distance |-> weightedScore - boundaries.mediumComplex]

BoundaryTier(weightedScore, boundaries) ==
    IF weightedScore < boundaries.simpleMedium
    THEN [tier |-> "SIMPLE", distance |-> boundaries.simpleMedium - weightedScore]
    ELSE IF weightedScore < boundaries.mediumComplex
    THEN [tier |-> "MEDIUM",
          distance |-> Min(weightedScore - boundaries.simpleMedium,
                           boundaries.mediumComplex - weightedScore)]
    ELSE IF weightedScore < boundaries.complexReasoning
    THEN [tier |-> "COMPLEX",
          distance |-> Min(weightedScore - boundaries.mediumComplex,
                           boundaries.complexReasoning - weightedScore)]
    ELSE [tier |-> "REASONING", distance |-> weightedScore - boundaries.complexReasoning]

classifyByRules(prompt, systemPrompt, estimatedTokens, config) ==
    LET userText         == UserText(prompt, systemPrompt)
        dimensions       == Dimensions(prompt, userText, estimatedTokens, config)
        agenticScore     == scoreAgenticTask(userText, config.agenticTaskKeywords).agenticScore
        signals          == Signals(dimensions)
        weightedScore    == WeightedScore(dimensions, config.dimensionWeights)
        reasoningMatches == Matches(userText, config.reasoningKeywords)
        mapped           == BoundaryTier(weightedScore, config.tierBoundaries)
        confidence       == calibrateConfidence(mapped.distance, config.confidenceSteepness)
    IN  IF ReasoningOverride(reasoningMatches)
        THEN [score |-> weightedScore, tier |-> "REASONING",
              confidence |-> Max(calibrateConfidence(Max(weightedScore, OverrideDistance),
                                                     config.confidenceSteepness),
                                 OverrideConfidence),
              signals |-> signals, agenticScore |-> agenticScore, dimensions |-> dimensions]
        ELSE IF confidence < config.confidenceThreshold
        THEN [score |-> weightedScore, tier |-> NullTier, confidence |-> confidence,
              signals |-> signals, agenticScore |-> agenticScore, dimensions |-> dimensions]
        ELSE [score |-> weightedScore, tier |-> mapped.tier, confidence |-> confidence,
              signals |-> signals, agenticScore |-> agenticScore, dimensions |-> dimensions]

(***************************************************************************)
(* The rule classifier run twice on one request: run a, then run b with    *)
(* another system prompt.                                                  *)
(***************************************************************************)
Runs == {"a", "b"}

NotRun == [notRun |-> TRUE]

InitRules ==
    /\ sessions = <<>>
    /\ enabled = TRUE
    /\ tierConfigs = TestTierConfigs
    /\ now = 0
    /\ cleanupInterval = FALSE
    /\ ret = NoRet
    /\ req = <<>>
    /\ budget = 0
    /\ llm = NoLLM
    /\ \E prompt \in Prompts : \E estimatedTokens \in TokenEstimates :
           rules = [prompt |-> prompt, estimatedTokens |-> estimatedTokens,
                    a |-> NotRun, b |-> NotRun]

ClassifyByRules(run, systemPrompt) ==
    /\ rules # NoRules
    /\ rules[run] = NotRun
    /\ run = "b" => (rules.a # NotRun /\ systemPrompt # rules.a.systemPrompt)
    /\ rules' = [rules EXCEPT ![run] =
                    [systemPrompt |-> systemPrompt,
                     result |-> classifyByRules(rules.prompt, systemPrompt,
                                                rules.estimatedTokens, ScoringConfig)]]
    /\ UNCHANGED <<sessions, enabled, tierConfigs, now, cleanupInterval, ret, req, budget, llm>>

NextRules ==
    \E run \in Runs : \E systemPrompt \in SystemPrompts : ClassifyByRules(run, systemPrompt)

SpecRules == InitRules /\ [][NextRules]_vars

(***************************************************************************)
(* Fallback classifier (llm-classifier.ts): one cheap upstream call,       *)
(* cached by the hash of the truncated prompt.  The cache time-to-live of  *)
(* one hour is two units of time.                                          *)
(***************************************************************************)
CacheTtlMs == 2
TruncationChars == 500
CacheLimit == 1000
HitConfidence == 7500
DefaultConfidence == 5000

\* the shipped classifier configuration, and one that truncates hard and expires early
ClassifierConfigs ==
    {[truncationChars |-> TruncationChars, cacheTtlMs |-> CacheTtlMs],
     [truncationChars |-> 4, cacheTtlMs |-> 1]}

LLMPrompts == {<<"s", "u", "m", " ", "1">>, <<"s", "u", "m", " ", "2">>, <<"h", "i">>}

\* String.prototype.charCodeAt, for the characters of the model's prompts
CharCode(c) ==
    IF \E k \in 1..Len(Letters) : Letters[k] = c
    THEN 96 + (CHOOSE k \in 1..Len(Letters) : Letters[k] = c)
    ELSE IF \E k \in 1..Len(Capitals) : Capitals[k] = c
    THEN 64 + (CHOOSE k \in 1..Len(Capitals) : Capitals[k] = c)
    ELSE CASE c = " " -> 32
           [] c = "1" -> 49
           [] c = "2" -> 50
           [] OTHER   -> 63

\* simpleHash: hash = ((hash << 5) - hash + char) | 0 over the characters, kept as the
\* high and low 16 bits of the 32-bit value; toString(36) maps different values to
\* different keys
RECURSIVE HashFrom(_, _)
HashFrom(hash, str) ==
    IF str = <<>> THEN hash
    ELSE LET lo == hash[2] * 31 + CharCode(Head(str))
             hi == hash[1] * 31 + lo \div 65536
         IN  HashFrom(<<hi % 65536, lo % 65536>>, Tail(str))

simpleHash(str) == HashFrom(<<0, 0>>, str)

\* String.prototype.trim
Trim(text) ==
    LET solid == {i \in 1..Len(text) : text[i] \notin Whitespace}
    IN  IF solid = {} THEN <<>>
        ELSE SubSeq(text, CHOOSE i \in solid : \A j \in solid : i <= j,
                          CHOOSE i \in solid : \A j \in solid : i >= j)

\* \w of a regular expression
WordChars == Range(Letters) \cup Range(Capitals) \cup Digits \cup {"_"}

\* /\bword\b/.test(text)
HasWord(text, word) ==
    \E i \in 1..(Len(text) - Len(word) + 1) :
        /\ At(text, i, word)
        /\ i = 1 \/ text[i - 1] \notin WordChars
        /\ i + Len(word) > Len(text) \/ text[i + Len(word)] \notin WordChars

\* the tier names as the regular expressions of parseTier spell them
TierWord ==
    [REASONING |-> <<"R", "E", "A", "S", "O", "N", "I", "N", "G">>,
     COMPLEX   |-> <<"C", "O", "M", "P", "L", "E", "X">>,
     MEDIUM    |-> <<"M", "E", "D", "I", "U", "M">>,
     SIMPLE    |-> <<"S", "I", "M", "P", "L", "E">>]

\* variant of parseTier that tests the tier names in ascending order
parseTier_AscendingOrder(text) ==
    IF HasWord(text, TierWord.SIMPLE) THEN "SIMPLE"
    ELSE IF HasWord(text, TierWord.MEDIUM) THEN "MEDIUM"
    ELSE IF HasWord(text, TierWord.COMPLEX) THEN "COMPLEX"
    ELSE IF HasWord(text, TierWord.REASONING) THEN "REASONING"
    ELSE "MEDIUM"

parseTier(text) ==
    IF HasWord(text, TierWord.REASONING) THEN "REASONING"
    ELSE IF HasWord(text, TierWord.COMPLEX) THEN "COMPLEX"
    ELSE IF HasWord(text, TierWord.MEDIUM) THEN "MEDIUM"
    ELSE IF HasWord(text, TierWord.SIMPLE) THEN "SIMPLE"
    ELSE "MEDIUM"

\* what the upstream model's answer can say
Answers ==
    {<<"s", "i", "m", "p", "l", "e">>,
     <<" ", "R", "e", "a", "s", "o", "n", "i", "n", "g", "\n">>,
     <<"C", "O", "M", "P", "L", "E", "X", " ", "o", "r", " ", "R", "E", "A", "S", "O", "N", "I", "N", "G">>,
     <<"S", "I", "M", "P", "L", "E", "R">>,
     <<"u", "n", "s", "u", "r", "e">>,
     <<>>}

\* the parsed bodies response.json() can resolve to (a record's missing field is an
\* undefined property), and the body that does not parse
InvalidJson == [json |-> "invalid"]

JsonBodies ==
    {[json |-> "null"],
     [json |-> "object"],
     [json |-> "object", choices |-> <<>>],
     [json |-> "object", choices |-> <<[json |-> "object"]>>],
     [json |-> "object", choices |-> <<[json |-> "object", message |-> [json |-> "object"]]>>],
     [json |-> "object", choices |-> <<[json |-> "object",
                                       message |-> [json |-> "object", content |-> [json |-> "number"]]]>>]}
    \cup {[json |-> "object", choices |-> <<[json |-> "object",
                                            message |-> [json |-> "object",
                                                         content |-> [json |-> "string", text |-> a]]]>>] :
             a \in Answers}

\* what payFetch can do: reject, or resolve to a response
Upstreams ==
    {[kind |-> "rejects"], [kind |-> "response", ok |-> FALSE, body |-> InvalidJson]}
    \cup {[kind |-> "response", ok |-> TRUE, body |-> b] : b \in JsonBodies \cup {InvalidJson}}

Thrown == [thrown |-> TRUE]

\* data.choices?.[0]?.message?.content?.trim().toUpperCase() ?? "", or the TypeError it raises
ResponseContent(data) ==
    IF data.json = "null" THEN Thrown
    ELSE IF "choices" \notin DOMAIN data THEN [text |-> <<>>]
    ELSE IF data.choices = <<>> THEN [text |-> <<>>]
    ELSE IF "message" \notin DOMAIN data.choices[1] THEN [text |-> <<>>]
    ELSE IF "content" \notin DOMAIN data.choices[1].message THEN [text |-> <<>>]
    ELSE IF data.choices[1].message.content.json = "string"
    THEN [text |-> ToUpperCase(Trim(data.choices[1].message.content.text))]
    ELSE Thrown

\* pruneCache
PruneCache(cache, t) == [k \in {j \in DOMAIN cache : ~(cache[j].expires <= t)} |-> cache[k]]

\* the body of the try block: the result it returns and the cache it leaves, or Thrown
TryUpstream(cache, cacheKey, config, upstream, t) ==
    IF upstream.kind = "rejects" THEN Thrown
    ELSE IF ~upstream.ok
    THEN [result |-> [tier |-> "MEDIUM", confidence |-> DefaultConfidence], cache |-> cache]
    ELSE IF upstream.body = InvalidJson THEN Thrown
    ELSE IF ResponseContent(upstream.body) = Thrown THEN Thrown
    ELSE LET tier   == parseTier(ResponseContent(upstream.body).text)
             cache1 == Put(cache, cacheKey, [tier |-> tier, expires |-> t + config.cacheTtlMs])
         IN  [result |-> [tier |-> tier, confidence |-> HitConfidence],
              cache  |-> IF Cardinality(DOMAIN cache1) > CacheLimit
                         THEN PruneCache(cache1, t) ELSE cache1]

\* variant: an entry is still served at the instant it expires
CacheHit_ServesAtExpiry(cache, cacheKey, t) == cacheKey \in DOMAIN cache /\ cache[cacheKey].expires >= t

CacheHit(cache, cacheKey, t) == cacheKey \in DOMAIN cache /\ cache[cacheKey].expires > t

\* the classifier without its catch block: what the try block throws reaches the caller
classifyByLLM_NoCatch(cache, prompt, config, upstream, t) ==
    LET truncated == Slice(prompt, config.truncationChars)
        cacheKey  == simpleHash(truncated)
        tried     == TryUpstream(cache, cacheKey, config, upstream, t)
    IN  IF CacheHit(cache, cacheKey, t)
        THEN [result |-> [tier |-> cache[cacheKey].tier, confidence |-> HitConfidence],
              cache |-> cache, called |-> FALSE]
        ELSE IF tried = Thrown
        THEN [result |-> Thrown, cache |-> cache, called |-> TRUE]
        ELSE [result |-> tried.result, cache |-> tried.cache, called |-> TRUE]

classifyByLLM(cache, prompt, config, upstream, t) ==
    LET truncated == Slice(prompt, config.truncationChars)
        cacheKey  == simpleHash(truncated)
        tried     == TryUpstream(cache, cacheKey, config, upstream, t)
    IN  IF CacheHit(cache, cacheKey, t)
        THEN [result |-> [tier |-> cache[cacheKey].tier, confidence |-> HitConfidence],
              cache |-> cache, called |-> FALSE]
        ELSE IF tried = Thrown
        THEN [result |-> [tier |-> "MEDIUM", confidence |-> DefaultConfidence],
              cache |-> cache, called |-> TRUE]
        ELSE [result |-> tried.result, cache |-> tried.cache, called |-> TRUE]

NotCalled == [kind |-> "none"]

InitLLM ==
    /\ sessions = <<>>
    /\ enabled = TRUE
    /\ tierConfigs = TestTierConfigs
    /\ now = 0
    /\ cleanupInterval = FALSE
    /\ ret = NoRet
    /\ req = <<>>
    /\ budget = MaxClassifications
    /\ rules = NoRules
    /\ \E config \in ClassifierConfigs : llm = [config |-> config, cache |-> <<>>]

ClassifyByLLM(prompt, upstream) ==
    /\ Step
    /\ llm # NoLLM
    /\ LET c == classifyByLLM(llm.cache, prompt, llm.config, upstream, now)
       IN  /\ llm' = [llm EXCEPT !.cache = c.cache]
           /\ ret' = [op |-> "classifyByLLM", prompt |-> prompt, called |-> c.called,
                      upstream |-> IF c.called THEN upstream ELSE NotCalled,
                      val |-> c.result]
    /\ UNCHANGED <<sessions, enabled, tierConfigs, now, cleanupInterval, req, rules>>

NextLLM ==
    \/ \E prompt \in LLMPrompts : \E upstream \in Upstreams : ClassifyByLLM(prompt, upstream)
    \/ \E d \in 1..(TimeoutMs + 1) : Tick(d)

SpecLLM == InitLLM /\ [][NextLLM]_vars

(***************************************************************************)
(* Model selector (selector.ts): tier -> model, cost and savings against   *)
(* the baseline model, and the tool-calling filter of a fallback chain.    *)
(* Prices are hundredths of a dollar per million tokens, a cost is price   *)
(* times tokens, and savings is the exact fraction num/den.                *)
(***************************************************************************)
MaxChain == 3

BASELINE_MODEL_ID == "anthropic/claude-opus-4.6"
BASELINE_INPUT_PRICE == 500
BASELINE_OUTPUT_PRICE == 2500

\* the pricing map of the selector's tests
MODEL_PRICING ==
    [m \in {"moonshot/kimi-k2.5", BASELINE_MODEL_ID} |->
        IF m = BASELINE_MODEL_ID THEN [inputPrice |-> 500, outputPrice |-> 2500]
        ELSE [inputPrice |-> 50, outputPrice |-> 240]]

\* that map, the same map when the catalog does not list the baseline model, and a
\* catalog that lists a model dearer than the baseline
PricingChoices ==
    {MODEL_PRICING,
     [m \in {"moonshot/kimi-k2.5"} |-> MODEL_PRICING[m]],
     [m \in {"moonshot/kimi-k2.5", "anthropic/claude-opus-4"} |->
        IF m = "anthropic/claude-opus-4" THEN [inputPrice |-> 1500, outputPrice |-> 7500]
        ELSE MODEL_PRICING[m]]}

\* cost of the model, cost of the baseline model (the catalog's price, else the hardcoded
\* pair) and savings; baselinePrice is left to the definitions below
CostsAgainst(model, modelPricing, baselinePrice, estimatedInputTokens, maxOutputTokens) ==
    LET Cost(price)  == price.inputPrice * estimatedInputTokens + price.outputPrice * maxOutputTokens
        \* a model the catalog does not list costs nothing
        costEstimate == IF model \in DOMAIN modelPricing THEN Cost(modelPricing[model]) ELSE 0
        baselineCost == Cost(baselinePrice)
    IN  [costEstimate |-> costEstimate,
         baselineCost |-> baselineCost,
         \* 1 - cost/baseline floored at 0; a division by zero yields 0 or NaN
         savings      |-> IF baselineCost = 0
                          THEN IF costEstimate = 0 THEN [nan |-> TRUE] ELSE [num |-> 0, den |-> 1]
                          ELSE [num |-> Max(0, baselineCost - costEstimate), den |-> baselineCost]]

\* the costs with no fallback pair: a baseline the catalog lacks is priced at nothing
calculateModelCost_NoFallbackPrice(model, modelPricing, estimatedInputTokens, maxOutputTokens) ==
    CostsAgainst(model, modelPricing,
                 IF BASELINE_MODEL_ID \in DOMAIN modelPricing THEN modelPricing[BASELINE_MODEL_ID]
                 ELSE [inputPrice |-> 0, outputPrice |-> 0],
                 estimatedInputTokens, maxOutputTokens)

calculateModelCost(model, modelPricing, estimatedInputTokens, maxOutputTokens) ==
    CostsAgainst(model, modelPricing,
                 IF BASELINE_MODEL_ID \in DOMAIN modelPricing THEN modelPricing[BASELINE_MODEL_ID]
                 ELSE [inputPrice |-> BASELINE_INPUT_PRICE, outputPrice |-> BASELINE_OUTPUT_PRICE],
                 estimatedInputTokens, maxOutputTokens)

selectModel(tier, confidence, method, reasoning, cfg, modelPricing, estimatedInputTokens, maxOutputTokens) ==
    LET model == cfg[tier].primary
        costs == calculateModelCost(model, modelPricing, estimatedInputTokens, maxOutputTokens)
    IN  [model |-> model, tier |-> tier, confidence |-> confidence, method |-> method,
         reasoning |-> reasoning, costEstimate |-> costs.costEstimate,
         baselineCost |-> costs.baselineCost, savings |-> costs.savings]

\* the capability lookup of the selector's tests
supportsToolCalling ==
    [modelId \in {"moonshot/kimi-k2.5", "xai/grok-code-fast-1", "nvidia/gpt-oss-120b",
                  "deepseek/deepseek-chat"} |->
        modelId \notin {"xai/grok-code-fast-1", "nvidia/gpt-oss-120b"}]

\* the filter without its guard against an empty chain
filterByToolCalling_MayEmpty(models, hasTools, supports) ==
    IF ~hasTools THEN models ELSE SelectSeq(models, LAMBDA m : supports[m])

filterByToolCalling(models, hasTools, supports) ==
    IF ~hasTools THEN models
    ELSE LET filtered == SelectSeq(models, LAMBDA m : supports[m])
         IN  IF Len(filtered) > 0 THEN filtered ELSE models

InitSelector ==
    /\ sessions = <<>>
    /\ enabled = TRUE
    /\ tierConfigs \in TierConfigChoices
    /\ now = 0
    /\ cleanupInterval = FALSE
    /\ ret = NoRet
    /\ \E modelPricing \in PricingChoices : req = [modelPricing |-> modelPricing]
    /\ budget = 0
    /\ rules = NoRules
    /\ llm = NoLLM

FilterByToolCalling(models, hasTools) ==
    /\ ret' = [op |-> "filterByToolCalling", models |-> models, hasTools |-> hasTools,
               val |-> filterByToolCalling(models, hasTools, supportsToolCalling)]
    /\ UNCHANGED <<sessions, enabled, tierConfigs, now, cleanupInterval, req, budget, rules, llm>>

CalculateModelCost(model, estimatedInputTokens, maxOutputTokens) ==
    /\ ret' = [op |-> "calculateModelCost", model |-> model,
               estimatedInputTokens |-> estimatedInputTokens, maxOutputTokens |-> maxOutputTokens,
               val |-> calculateModelCost(model, req.modelPricing, estimatedInputTokens, maxOutputTokens)]
    /\ UNCHANGED <<sessions, enabled, tierConfigs, now, cleanupInterval, req, budget, rules, llm>>

SelectModel(tier, estimatedInputTokens, maxOutputTokens) ==
    /\ ret' = [op |-> "selectModel", model |-> tierConfigs[tier].primary,
               estimatedInputTokens |-> estimatedInputTokens, maxOutputTokens |-> maxOutputTokens,
               val |-> selectModel(tier, 9500, "rules", <<[part |-> "test"]>>, tierConfigs,
                                   req.modelPricing, estimatedInputTokens, maxOutputTokens)]
    /\ UNCHANGED <<sessions, enabled, tierConfigs, now, cleanupInterval, req, budget, rules, llm>>

\* chains of up to MaxChain models; the priced models and one no catalog lists; token
\* counts from one to a full context
NextSelector ==
    \/ \E models \in UNION {[1..n -> DOMAIN supportsToolCalling] : n \in 0..MaxChain} :
          \E hasTools \in BOOLEAN : FilterByToolCalling(models, hasTools)
    \/ \E model \in {"moonshot/kimi-k2.5", "anthropic/claude-opus-4", BASELINE_MODEL_ID, "cheap-model"} :
          \E i \in {1, 1000, 100000} : \E o \in {1, 1000, 64000} : CalculateModelCost(model, i, o)
    \/ \E tier \in Tiers : \E i \in {1, 1000, 100000} : \E o \in {1, 1000, 64000} :
          SelectModel(tier, i, o)

SpecSelector == InitSelector /\ [][NextSelector]_vars

(***************************************************************************)
(* Routing entry point (route): large-context override, structured-output  *)
(* detection, rules first, fallback classifier for the ambiguous case,     *)
(* minimum tier for structured output, model selection.  A reasoning trace *)
(* is the sequence of its " | "-separated parts.                           *)
(***************************************************************************)
MaxRoutes == 2

\* config.overrides: the shipped one, and operators' with a low ceiling
OverridesChoices ==
    {[maxTokensForceComplex |-> 100000, structuredOutputMinTier |-> "MEDIUM"],
     [maxTokensForceComplex |-> 8, structuredOutputMinTier |-> "COMPLEX"]}

\* "What is the capital of France?"
ScenarioA ==
    <<"W", "h", "a", "t", " ", "i", "s", " ", "t", "h", "e", " ", "c", "a", "p", "i", "t", "a", "l", " ", "o", "f", " ", "F", "r", "a", "n", "c", "e", "?">>

RoutePrompts ==
    {<<"w", "h", "a", "t", " ", "i", "s", " ">>,
     <<"P", "r", "o", "v", "e", " ", "t", "h", "e", "o", "r", "e", "m", " ">>,
     <<"f", "u", "n", "c", "t", "i", "o", "n", " ">>,
     <<"?", "?", "?", "?">>,
     <<"f", "u", "n", "c", "t", "i", "o", "n", " ", "w", "h", "a", "t", " ", "i", "s", " ">>,
     ScenarioA}

\* systemPrompt: string | undefined, the empty string included
RouteSystemPrompts ==
    {Undefined,
     [text |-> <<>>],
     [text |-> <<"R", "e", "p", "l", "y", " ", "i", "n", " ", "J", "S", "O", "N", " ", "o", "n", "l", "y", ".", " ">>],
     [text |-> BoilerplateSystemPrompt]}

RouteUpstreams ==
    {[kind |-> "rejects"],
     [kind |-> "response", ok |-> FALSE, body |-> InvalidJson],
     [kind |-> "response", ok |-> TRUE, body |-> InvalidJson],
     [kind |-> "response", ok |-> TRUE, body |-> [json |-> "null"]]}
    \cup {[kind |-> "response", ok |-> TRUE,
           body |-> [json |-> "object", choices |-> <<[json |-> "object",
                                                      message |-> [json |-> "object",
                                                                   content |-> [json |-> "string", text |-> a]]]>>]] :
             a \in {<<"c", "o", "m", "p", "l", "e", "x">>, <<"u", "n", "s", "u", "r", "e">>}}

\* the estimate taken from the user's prompt alone (a variant of EstimateTokens)
EstimateTokens_PromptOnly(prompt, systemPrompt) == (Len(prompt) + 3) \div 4

\* Math.ceil(`${systemPrompt ?? ""} ${prompt}`.length / 4)
EstimateTokens(prompt, systemPrompt) ==
    LET fullText == (IF systemPrompt = Undefined THEN <<>> ELSE systemPrompt.text) \o <<" ">> \o prompt
    IN  (Len(fullText) + 3) \div 4

\* systemPrompt ? /json|structured|schema/i.test(systemPrompt) : false
HasStructuredOutput(systemPrompt) ==
    IF systemPrompt = Undefined THEN FALSE
    ELSE IF systemPrompt.text = <<>> THEN FALSE
    ELSE \E word \in {<<"j", "s", "o", "n">>, <<"s", "t", "r", "u", "c", "t", "u", "r", "e", "d">>, <<"s", "c", "h", "e", "m", "a">>} : Includes(ToLowerCase(systemPrompt.text), word)

tierRank == [SIMPLE |-> 0, MEDIUM |-> 1, COMPLEX |-> 2, REASONING |-> 3]

\* the minimum tier imposed whenever structured output is wanted, even on a higher tier
ApplyMinTier_Always(tier, hasStructuredOutput, minTier) ==
    IF hasStructuredOutput THEN minTier ELSE tier

\* the structured-output minimum applied to a resolved tier
ApplyMinTier(tier, hasStructuredOutput, minTier) ==
    IF hasStructuredOutput /\ tierRank[tier] < tierRank[minTier] THEN minTier ELSE tier

\* classifyByRules(prompt, systemPrompt, estimatedTokens, config.scoring) of every request
\* text, evaluated once
RuleResults ==
    [request \in RoutePrompts \X RouteSystemPrompts |->
        classifyByRules(request[1], request[2], EstimateTokens(request[1], request[2]), ScoringConfig)]

\* route after classification: the minimum tier for structured output, then selectModel
routeDecide(resolved, method, ruleResult, cacheAfter, called, estimatedTokens, systemPrompt, maxOutputTokens, options) ==
    LET ambiguous           == method = "llm"
        hasStructuredOutput == HasStructuredOutput(systemPrompt)
        minTier             == options.config.overrides.structuredOutputMinTier
        tier                == ApplyMinTier(resolved.tier, hasStructuredOutput, minTier)
        reasoning           ==
            <<[part |-> "score", score |-> ruleResult.score, signals |-> ruleResult.signals]>>
            \o (IF ambiguous THEN <<[part |-> "ambiguous -> LLM", tier |-> resolved.tier]>> ELSE <<>>)
            \o (IF tier # resolved.tier
                THEN <<[part |-> "upgraded to (structured output)", tier |-> minTier]>> ELSE <<>>)
    IN  [val |-> selectModel(tier, resolved.confidence, method, reasoning, options.config.tiers,
                             options.modelPricing, estimatedTokens, maxOutputTokens),
         cache |-> cacheAfter, ranRules |-> TRUE, ranLLM |-> ambiguous, called |-> called,
         estimatedTokens |-> estimatedTokens,
         hasStructuredOutput |-> hasStructuredOutput,
         ruleTier |-> ruleResult.tier,
         resolved |-> resolved.tier]

\* route when the rules were ambiguous: the outcome of the fallback classifier
routeFallback(llmCall, ruleResult, estimatedTokens, systemPrompt, maxOutputTokens, options) ==
    IF llmCall.result = Thrown
    THEN [val |-> Thrown, cache |-> llmCall.cache, ranRules |-> TRUE, ranLLM |-> TRUE,
          called |-> llmCall.called, estimatedTokens |-> estimatedTokens]
    ELSE routeDecide(llmCall.result, "llm", ruleResult, llmCall.cache, llmCall.called,
                     estimatedTokens, systemPrompt, maxOutputTokens, options)

\* variant: a SIMPLE verdict of the rules is handed to the fallback classifier as well
routeClassify_DoubleChecksSimple(ruleResult, estimatedTokens, prompt, systemPrompt, maxOutputTokens, options, cache, upstream, t) ==
    IF ruleResult.tier = NullTier \/ ruleResult.tier = "SIMPLE"
    THEN routeFallback(classifyByLLM(cache, prompt, options.config.classifier, upstream, t),
                       ruleResult, estimatedTokens, systemPrompt, maxOutputTokens, options)
    ELSE routeDecide([tier |-> ruleResult.tier, confidence |-> ruleResult.confidence], "rules",
                     ruleResult, cache, FALSE, estimatedTokens, systemPrompt, maxOutputTokens,
                     options)

\* route below the large-context limit: the rules first, the fallback classifier when they
\* are ambiguous
routeClassify(ruleResult, estimatedTokens, prompt, systemPrompt, maxOutputTokens, options, cache, upstream, t) ==
    IF ruleResult.tier = NullTier
    THEN routeFallback(classifyByLLM(cache, prompt, options.config.classifier, upstream, t),
                       ruleResult, estimatedTokens, systemPrompt, maxOutputTokens, options)
    ELSE routeDecide([tier |-> ruleResult.tier, confidence |-> ruleResult.confidence], "rules",
                     ruleResult, cache, FALSE, estimatedTokens, systemPrompt, maxOutputTokens,
                     options)

\* route with the token estimate in hand: the large-context override comes first
routeEstimated(estimatedTokens, prompt, systemPrompt, maxOutputTokens, options, cache, upstream, t) ==
    IF estimatedTokens > options.config.overrides.maxTokensForceComplex
    THEN [val |-> selectModel("COMPLEX", 9500, "rules",
                              <<[part |-> "Input exceeds tokens",
                                 tokens |-> options.config.overrides.maxTokensForceComplex]>>,
                              options.config.tiers, options.modelPricing, estimatedTokens,
                              maxOutputTokens),
          cache |-> cache, ranRules |-> FALSE, ranLLM |-> FALSE, called |-> FALSE,
          estimatedTokens |-> estimatedTokens]
    ELSE routeClassify(RuleResults[<<prompt, systemPrompt>>], estimatedTokens, prompt,
                       systemPrompt, maxOutputTokens, options, cache, upstream, t)

\* route: the decision it resolves to (or Thrown), the classifier cache it leaves, and
\* which classifiers it ran
route(prompt, systemPrompt, maxOutputTokens, options, cache, upstream, t) ==
    routeEstimated(EstimateTokens(prompt, systemPrompt), prompt, systemPrompt, maxOutputTokens,
                   options, cache, upstream, t)

InitRoute ==
    /\ sessions = <<>>
    /\ enabled = TRUE
    /\ tierConfigs = TestTierConfigs
    /\ now = 0
    /\ cleanupInterval = FALSE
    /\ ret = NoRet
    /\ \E overrides \in OverridesChoices : req = [overrides |-> overrides, modelPricing |-> MODEL_PRICING]
    /\ budget = MaxRoutes
    /\ rules = NoRules
    /\ \E config \in ClassifierConfigs : llm = [config |-> config, cache |-> <<>>]

\* what a call of route leaves behind: the classifier's cache and the caller's view
Returns(r, prompt, systemPrompt, upstream) ==
    /\ llm' = [llm EXCEPT !.cache = r.cache]
    /\ ret' = [op |-> "route", prompt |-> prompt, systemPrompt |-> systemPrompt,
               upstream |-> IF r.called THEN upstream ELSE NotCalled,
               cacheBefore |-> llm.cache, trace |-> r, val |-> r.val]

Route(prompt, systemPrompt, maxOutputTokens, upstream) ==
    /\ Step
    /\ llm # NoLLM
    /\ "overrides" \in DOMAIN req
    /\ Returns(route(prompt, systemPrompt, maxOutputTokens,
                     [config |-> [overrides |-> req.overrides, classifier |-> llm.config,
                                  scoring |-> ScoringConfig, tiers |-> tierConfigs],
                      modelPricing |-> req.modelPricing],
                     llm.cache, upstream, now),
               prompt, systemPrompt, upstream)
    /\ UNCHANGED <<sessions, enabled, tierConfigs, now, cleanupInterval, req, rules>>

NextRoute ==
    \E prompt \in RoutePrompts : \E systemPrompt \in RouteSystemPrompts :
        \E maxOutputTokens \in {4096} : \E upstream \in RouteUpstreams :
            Route(prompt, systemPrompt, maxOutputTokens, upstream)

SpecRoute == InitRoute /\ [][NextRoute]_vars

(***************************************************************************)
(* The fallback classifier's call seen step by step: it suspends at        *)
(* await payFetch(...) and goes on when that promise settles.  The call    *)
(* passes no signal and starts no timer, so nothing but the upstream's     *)
(* answer or rejection wakes it.  The event loop runs the continuation of  *)
(* a settled promise; whether the promise settles is the upstream's doing. *)
(***************************************************************************)
InFlight == "prompt" \in DOMAIN req

InitAwait ==
    /\ sessions = <<>>
    /\ enabled = TRUE
    /\ tierConfigs = TestTierConfigs
    /\ now = 0
    /\ cleanupInterval = FALSE
    /\ ret = NoRet
    /\ req = <<>>
    /\ budget = MaxClassifications
    /\ rules = NoRules
    /\ \E config \in ClassifierConfigs : llm = [config |-> config, cache |-> <<>>]

\* classifyByLLM up to the await: a cache hit returns at once, a miss calls payFetch
CallClassifier(prompt) ==
    /\ Step
    /\ ~InFlight
    /\ IF CacheHit(llm.cache, simpleHash(Slice(prompt, llm.config.truncationChars)), now)
       THEN /\ ret' = [op |-> "classifyByLLM", prompt |-> prompt, called |-> FALSE,
                       upstream |-> NotCalled,
                       val |-> classifyByLLM(llm.cache, prompt, llm.config, NotCalled, now).result]
            /\ req' = req
       ELSE /\ ret' = NoRet
            /\ req' = [prompt |-> prompt, settled |-> NotCalled]
    /\ UNCHANGED <<sessions, enabled, tierConfigs, now, cleanupInterval, rules, llm>>

\* the promise of payFetch settles: it rejects, or resolves to a response
Settle(upstream) ==
    /\ InFlight
    /\ req.settled = NotCalled
    /\ req' = [req EXCEPT !.settled = upstream]
    /\ UNCHANGED <<sessions, enabled, tierConfigs, now, cleanupInterval, ret, budget, rules, llm>>

\* classifyByLLM after the await, up to its return
Resume ==
    /\ InFlight
    /\ req.settled # NotCalled
    /\ LET c == classifyByLLM(llm.cache, req.prompt, llm.config, req.settled, now)
       IN  /\ llm' = [llm EXCEPT !.cache = c.cache]
           /\ ret' = [op |-> "classifyByLLM", prompt |-> req.prompt, called |-> TRUE,
                      upstream |-> req.settled, val |-> c.result]
    /\ req' = <<>>
    /\ UNCHANGED <<sessions, enabled, tierConfigs, now, cleanupInterval, budget, rules>>

NextAwait ==
    \/ \E prompt \in LLMPrompts : CallClassifier(prompt)
    \/ \E upstream \in Upstreams : Settle(upstream)
    \/ Resume

SpecAwait == InitAwait /\ [][NextAwait]_vars /\ WF_vars(Resume)

(***************************************************************************)
(* Properties.                                                             *)
(***************************************************************************)
Live(sid) == sid \in DOMAIN sessions

\* the request's fingerprint equals the two recorded before it on its session
ThirdInARow(r) ==
    /\ IsEntry(r.afterPin)
    /\ LET w == r.afterPin.recentHashes
       IN  Len(w) >= 2 /\ w[Len(w)] = r.hash /\ w[Len(w) - 1] = r.hash

\* ... and the one before those, if any, differs: exactly the third of the run
ExactlyThird(r) ==
    /\ ThirdInARow(r)
    /\ LET w == r.afterPin.recentHashes
       IN  Len(w) = 3 => w[1] # r.hash

\* C1 (as amended): on a session pinned below REASONING that has not escalated since it
\* was created, the third consecutive request with the same fingerprint escalates: the
\* pinned tier and the response's tier are one rank above the tier pinned before, and the
\* entry is marked escalated with its strikes reset.  No request escalates unless it is
\* such a third repeat, and on an escalated session no request escalates again (a fourth
\* identical fingerprint included).
C1_ThreeStrikeEscalation ==
    ret.op = "request" /\ IsEntry(ret.afterPin) =>
        /\ (ThirdInARow(ret) /\ ~ret.afterPin.escalated /\ ret.afterPin.tier # "REASONING") =>
               /\ ret.escalation # Null
               /\ Rank(ret.tier) = Rank(ret.afterPin.tier) + 1
               /\ sessions[ret.sid].tier = ret.tier
               /\ sessions[ret.sid].escalated
               /\ sessions[ret.sid].strikes = 0
        /\ ret.escalation # Null => ThirdInARow(ret) /\ ~ret.afterPin.escalated
        /\ ret.afterPin.escalated =>
               /\ ret.escalation = Null
               /\ sessions[ret.sid].tier = ret.afterPin.tier

\* C1 witness: a fourth identical fingerprint arrives on a session that has escalated
C1_Witness ==
    /\ ret.op = "request"
    /\ IsEntry(ret.afterPin)
    /\ ret.afterPin.escalated
    /\ ret.afterPin.recentHashes = <<ret.hash, ret.hash, ret.hash>>
    /\ ret.escalation = Null

\* C1 (as claimed): every third consecutive identical fingerprint advances the pinned
\* tier by exactly one step (the request itself being classified no higher than the
\* tier pinned before it)
C1_Original ==
    (ret.op = "request" /\ ExactlyThird(ret) /\ IsEntry(ret.existing)
        /\ Rank(ret.classified) <= Rank(ret.existing.tier)) =>
        Rank(sessions[ret.sid].tier) = Rank(ret.existing.tier) + 1

\* C2 (as claimed): a request classified at or below the pinned tier leaves the pinned
\* tier and model as they were; a request classified above it leaves the session pinned
\* at the classified tier
C2_NeverDowngrade ==
    ret.op = "request" /\ IsEntry(ret.existing) =>
        IF Rank(ret.classified) <= Rank(ret.existing.tier)
        THEN /\ ret.afterPin.tier = ret.existing.tier
             /\ ret.afterPin.model = ret.existing.model
        ELSE ret.afterPin.tier = ret.classified

\* C3 (as claimed): two requests in flight on one session never both escalate it
C3_EscalatedAtMostOnce ==
    \A r1, r2 \in Requests :
        (r1 # r2 /\ req[r1].pc # "idle" /\ req[r2].pc # "idle" /\ req[r1].sid = req[r2].sid) =>
            ~(req[r1].escalation # Null /\ req[r2].escalation # Null)

\* C4 (as claimed): once both requests on one session have completed, the pinned tier is
\* at least the highest tier either of them was classified at
C4_NoLostUpgrade ==
    \A r1, r2 \in Requests :
        (r1 # r2 /\ req[r1].pc = "done" /\ req[r2].pc = "done" /\ req[r1].sid = req[r2].sid) =>
            /\ Live(req[r1].sid)
            /\ Rank(sessions[req[r1].sid].tier) >= Rank(req[r1].tier)
            /\ Rank(sessions[req[r1].sid].tier) >= Rank(req[r2].tier)

C6_EscalatesOncePerLifetime ==
    [][\A sid \in SessionIds :
           (Live(sid) /\ sessions[sid].escalated /\ sid \in DOMAIN sessions') =>
               /\ sessions'[sid].escalated
               /\ (ret'.op = "recordRequestHash" /\ ret'.sid = sid) => ret'.val = FALSE]_vars

\* C6 witness: three identical fingerprints recorded on an escalated entry, and no trigger
C6_Witness ==
    /\ ret.op = "recordRequestHash"
    /\ Live(ret.sid)
    /\ sessions[ret.sid].escalated
    /\ sessions[ret.sid].strikes >= StrikeTrigger
    /\ ret.val = FALSE

\* C7 (as claimed): the pinned tier of an escalated entry never decreases while the entry
\* stays in the map
C7_EscalatedTierNeverDecreases ==
    [][\A sid \in SessionIds :
           (Live(sid) /\ sessions[sid].escalated /\ sid \in DOMAIN sessions') =>
               Rank(sessions'[sid].tier) >= Rank(sessions[sid].tier)]_vars

\* the distinct reasoning keywords that occur in a user text
ReasoningKeywordsIn(prompt) ==
    {kw \in Range(ScoringConfig.reasoningKeywords) : Includes(ToLowerCase(prompt), ToLowerCase(kw))}

\* C8: a request whose user text holds at least 2 reasoning keywords is classified
\* REASONING with confidence >= 0.85, whatever the other dimensions, the token estimate
\* and the system prompt are
C8_ReasoningOverride ==
    \A run \in Runs :
        (rules # NoRules /\ rules[run] # NotRun
            /\ Cardinality(ReasoningKeywordsIn(rules.prompt)) >= 2) =>
            /\ rules[run].result.tier = "REASONING"
            /\ rules[run].result.confidence >= 8500

\* C8 witness: two reasoning keywords in a short "what is" request whose weighted score
\* lies below the REASONING boundary, classified with a keyword-laden system prompt
C8_Witness ==
    /\ rules # NoRules
    /\ rules.a # NotRun
    /\ rules.a.systemPrompt # Undefined
    /\ Cardinality(ReasoningKeywordsIn(rules.prompt)) = 2
    /\ Includes(ToLowerCase(rules.prompt), <<"w", "h", "a", "t", " ", "i", "s">>)
    /\ rules.estimatedTokens < ScoringConfig.tokenCountThresholds.simple
    /\ rules.a.result.score < ScoringConfig.tierBoundaries.complexReasoning
    /\ rules.a.result.tier = "REASONING"

\* C9: two runs of the rule classifier on the same user prompt and token estimate return
\* the same result, whatever their system prompts are
C9_SystemPromptIndependence ==
    (rules # NoRules /\ rules.a # NotRun /\ rules.b # NotRun) => rules.a.result = rules.b.result

\* C9 witness: one run without a system prompt and one with a system prompt full of
\* reasoning keywords, on a user prompt that is not classified REASONING
C9_Witness ==
    /\ rules # NoRules
    /\ rules.a # NotRun
    /\ rules.b # NotRun
    /\ rules.a.systemPrompt = Undefined
    /\ rules.b.systemPrompt # Undefined
    /\ Cardinality(ReasoningKeywordsIn(rules.b.systemPrompt.text)) >= 2
    /\ rules.b.result.tier # "REASONING"

\* the upstream call failed: it rejected, answered with a non-OK status, with a body that
\* is no JSON or not of the expected shape, or with a text that names no tier
UpstreamFailed(upstream) ==
    \/ upstream.kind = "rejects"
    \/ ~upstream.ok
    \/ upstream.body = InvalidJson
    \/ ResponseContent(upstream.body) = Thrown
    \/ \A tier \in Tiers : ~HasWord(ResponseContent(upstream.body).text, TierWord[tier])

\* C10 (as claimed): every failure of the fallback classifier yields MEDIUM at confidence 0.5
C10_FailureDegradesToMedium ==
    (ret.op = "classifyByLLM" /\ ret.called /\ UpstreamFailed(ret.upstream)) =>
        ret.val = [tier |-> "MEDIUM", confidence |-> 5000]

\* C11: route() never fails a request.  Whatever the prompt, the system prompt and the
\* behaviour of the upstream classifier call (it throws, answers with a non-OK status,
\* with a malformed or empty body, with any text), route resolves to a RoutingDecision
\* that carries one of the four tiers; it never throws or rejects.
C11_RouteNeverFails ==
    ret.op = "route" =>
        /\ ret.val # Thrown
        /\ {"model", "tier", "confidence", "method", "reasoning",
            "costEstimate", "baselineCost", "savings"} \subseteq DOMAIN ret.val
        /\ ret.val.tier \in Tiers

\* an ambiguous request whose upstream call failed and that was still routed
C11_Witness ==
    /\ ret.op = "route"
    /\ ret.trace.called
    /\ UpstreamFailed(ret.upstream)
    /\ ret.val # Thrown
    /\ ret.val.method = "llm"
    /\ ret.val.tier = "MEDIUM"

\* C12: every invocation of the fallback classifier eventually returns to its caller,
\* even if the upstream call never responds: a call in flight leads to a call returned.
C12_ClassifierReturns == InFlight ~> ~InFlight

\* C13: whenever the combined token estimate of system prompt and prompt exceeds
\* maxTokensForceComplex, route() returns COMPLEX with method "rules" and a reasoning
\* trace that cites the override, and runs neither the rule classifier nor the fallback
\* classifier (no upstream call, cache untouched), whatever the prompt says and whether
\* or not structured output is wanted.  Math.ceil(n / 4) > max exactly when n > 4 * max.
C13_LargeContextOverride ==
    (/\ ret.op = "route"
     /\ Len(IF ret.systemPrompt = Undefined THEN <<>> ELSE ret.systemPrompt.text) + 1 + Len(ret.prompt)
           > 4 * req.overrides.maxTokensForceComplex)
    => /\ ret.val.tier = "COMPLEX"
       /\ ret.val.model = tierConfigs["COMPLEX"].primary
       /\ ret.val.method = "rules"
       /\ ret.val.reasoning = <<[part |-> "Input exceeds tokens",
                                 tokens |-> req.overrides.maxTokensForceComplex]>>
       /\ ~ret.trace.ranRules
       /\ ~ret.trace.ranLLM
       /\ ret.upstream = NotCalled
       /\ llm.cache = ret.cacheBefore

\* an oversized request that asks for structured output and whose prompt alone the rules
\* would send to REASONING is routed to COMPLEX
C13_Witness ==
    /\ ret.op = "route"
    /\ ret.trace.estimatedTokens > req.overrides.maxTokensForceComplex
    /\ ret.val.tier = "COMPLEX"
    /\ RuleResults[<<ret.prompt, ret.systemPrompt>>].tier = "REASONING"
    /\ HasStructuredOutput(ret.systemPrompt)

\* C14: when structured-output intent is detected, the tier handed to model selection is
\* the higher of the tier the classifiers resolved and structuredOutputMinTier; when it
\* is not detected the resolved tier is handed on unchanged; in neither case is the tier
\* lower than the resolved one.
C14_StructuredOutputMinTier ==
    (ret.op = "route" /\ "resolved" \in DOMAIN ret.trace) =>
        /\ ret.trace.ruleTier # NullTier => ret.trace.resolved = ret.trace.ruleTier
        /\ HasStructuredOutput(ret.systemPrompt) =>
              ret.val.tier = IF tierRank[ret.trace.resolved] >= tierRank[req.overrides.structuredOutputMinTier]
                             THEN ret.trace.resolved
                             ELSE req.overrides.structuredOutputMinTier
        /\ ~HasStructuredOutput(ret.systemPrompt) => ret.val.tier = ret.trace.resolved
        /\ tierRank[ret.val.tier] >= tierRank[ret.trace.resolved]

\* a request resolved below the minimum tier, with a system prompt that asks for JSON, is
\* upgraded to the minimum tier
C14_Witness ==
    /\ ret.op = "route"
    /\ "resolved" \in DOMAIN ret.trace
    /\ HasStructuredOutput(ret.systemPrompt)
    /\ tierRank[ret.trace.resolved] < tierRank[req.overrides.structuredOutputMinTier]
    /\ ret.val.tier = req.overrides.structuredOutputMinTier
    /\ ret.val.reasoning[Len(ret.val.reasoning)].part = "upgraded to (structured output)"

\* C15: every decision the handler answers with, whether freshly classified, kept from a
\* pinned session, upgraded or escalated, reports a model out of the fallback chain
\* (primary or a fallback) of the tier it reports; so does every pinned session, from
\* which later decisions are served.
C15_ModelBelongsToTier ==
    /\ ret.op = "request" => ret.model \in Range(FallbackChain(tierConfigs, ret.tier))
    /\ \A sid \in DOMAIN sessions :
          sessions[sid].model \in Range(FallbackChain(tierConfigs, sessions[sid].tier))

\* a decision served from a pinned session that escalates on this request
C15_Witness ==
    /\ ret.op = "request"
    /\ IsEntry(ret.existing)
    /\ ret.escalation # Null
    /\ ret.model = ret.escalation.model
    /\ ret.tier = NextTier(ret.afterPin.tier)

\* C16: filterByToolCalling returns the list unchanged when the request carries no tools;
\* when it does, it returns exactly the models that support tool calling, in their
\* original order, unless none does, and then the original list unchanged.  A non-empty
\* chain never becomes empty, and filtering a filtered chain changes nothing.
C16_FilterByToolCalling ==
    ret.op = "filterByToolCalling" =>
        LET models    == ret.models
            kept      == {i \in 1..Len(models) : supportsToolCalling[models[i]]}
            \* the position in models of the k-th supporting model
            Nth(k)    == CHOOSE i \in kept : Cardinality({j \in kept : j <= i}) = k
        IN  /\ ~ret.hasTools => ret.val = models
            /\ (ret.hasTools /\ kept = {}) => ret.val = models
            /\ (ret.hasTools /\ kept # {}) =>
                  /\ Len(ret.val) = Cardinality(kept)
                  /\ \A k \in 1..Len(ret.val) : ret.val[k] = models[Nth(k)]
            /\ models # <<>> => ret.val # <<>>
            /\ filterByToolCalling(ret.val, ret.hasTools, supportsToolCalling) = ret.val

\* a chain with tools requested from which a model in the middle is removed
C16_Witness ==
    /\ ret.op = "filterByToolCalling"
    /\ ret.hasTools
    /\ ret.models = <<"moonshot/kimi-k2.5", "xai/grok-code-fast-1", "deepseek/deepseek-chat">>
    /\ ret.val = <<"moonshot/kimi-k2.5", "deepseek/deepseek-chat">>

\* C17: for every model and positive input and output token counts, savings lies between
\* 0 and 1 and baselineCost is positive, also when the pricing map lacks the baseline
\* model (the hardcoded fallback price pair then prices the baseline).
C17_SavingsBounded ==
    ret.op \in {"calculateModelCost", "selectModel"} =>
        /\ ret.val.baselineCost > 0
        /\ "num" \in DOMAIN ret.val.savings
        /\ ret.val.savings.den > 0
        /\ 0 <= ret.val.savings.num
        /\ ret.val.savings.num <= ret.val.savings.den
        /\ ret.val.costEstimate >= 0

\* the cost of a priced model computed against a catalog that lacks the baseline model
C17_Witness ==
    /\ ret.op = "calculateModelCost"
    /\ BASELINE_MODEL_ID \notin DOMAIN req.modelPricing
    /\ ret.model \in DOMAIN req.modelPricing
    /\ ret.val.baselineCost = BASELINE_INPUT_PRICE * ret.estimatedInputTokens
                              + BASELINE_OUTPUT_PRICE * ret.maxOutputTokens
    /\ ret.val.savings.num > 0
    /\ ret.val.savings.num < ret.val.savings.den


\* C18: touchSession, recordRequestHash, escalateSession and clearSession called with a
\* session id the store does not hold are no-ops: the store is left exactly as it was (no
\* entry is created, every other session is unchanged) and the call returns its sentinel
\* (false for recordRequestHash, null for escalateSession, nothing for the other two).
C18_AbsentSessionNoOp ==
    [][\A sid \in SessionIds :
          sid \notin DOMAIN sessions =>
              /\ TouchSession(sid) => (sessions' = sessions /\ ret' = NoRet)
              /\ ClearSession(sid) => (sessions' = sessions /\ ret' = NoRet)
              /\ (\E hash \in Hashes : RecordRequestHash(sid, hash)) =>
                     (sessions' = sessions /\ ret'.val = FALSE)
              /\ EscalateSession(sid) => (sessions' = sessions /\ ret'.val = Null)]_vars

\* escalateSession has returned null for an id the store does not hold while it holds another
C18_Witness ==
    /\ ret.op = "escalateSession"
    /\ ret.sid \notin DOMAIN sessions
    /\ ret.val = Null
    /\ \E other \in DOMAIN sessions : other # ret.sid /\ sessions[other].strikes > 0

\* C19: for a session the store holds below the top tier, escalateSession moves the tier
\* exactly one step up TIER_ORDER, pins the primary model of the new tier, resets strikes
\* to 0, sets escalated, leaves the entry's other fields and the other sessions alone, and
\* returns the new model and tier.
C19_EscalateOneStep ==
    [][\A sid \in SessionIds :
          (/\ EscalateSession(sid)
           /\ sid \in DOMAIN sessions
           /\ IndexOf(TIER_ORDER, sessions[sid].tier) < Len(TIER_ORDER) - 1) =>
              LET old == sessions[sid]
                  new == sessions'[sid]
              IN  /\ DOMAIN sessions' = DOMAIN sessions
                  /\ IndexOf(TIER_ORDER, new.tier) = IndexOf(TIER_ORDER, old.tier) + 1
                  /\ new.model = tierConfigs[new.tier].primary
                  /\ new.strikes = 0
                  /\ new.escalated
                  /\ new = [old EXCEPT !.tier = new.tier, !.model = new.model,
                                       !.strikes = 0, !.escalated = TRUE]
                  /\ \A other \in DOMAIN sessions \ {sid} : sessions'[other] = sessions[other]
                  /\ ret'.val = [model |-> new.model, tier |-> new.tier]]_vars

\* a session that repeated a request has been escalated: its strikes are back to 0 while
\* its window still holds the repeated hashes
C19_Witness ==
    /\ ret.op = "escalateSession"
    /\ ret.val # Null
    /\ ret.sid \in DOMAIN sessions
    /\ sessions[ret.sid].tier = ret.val.tier
    /\ sessions[ret.sid].model = ret.val.model
    /\ sessions[ret.sid].strikes = 0
    /\ sessions[ret.sid].escalated
    /\ Len(sessions[ret.sid].recentHashes) >= 2
    /\ sessions[ret.sid].recentHashes[1] = sessions[ret.sid].recentHashes[2]

\* C20: getSession returns the entry exactly when the store holds it and it has not been
\* idle longer than timeoutMs (now - lastUsedAt <= timeoutMs), and then changes nothing;
\* for an entry idle beyond the timeout it returns undefined and removes that entry, so
\* the id is unknown to the next lookup; the other sessions are untouched either way.
C20_GetSessionExpiry ==
    [][\A sid \in SessionIds \cup {EmptyId} :
          GetSession(sid) =>
              LET live == /\ sid \in DOMAIN sessions
                          /\ now - sessions[sid].lastUsedAt <= TimeoutMs
              IN  /\ live => (ret'.val = sessions[sid] /\ sessions' = sessions)
                  /\ ~live => /\ ret'.val = Undefined
                              /\ sid \notin DOMAIN sessions'
                              /\ GetSessionRet(sessions', enabled, sid, now) = Undefined
                  /\ \A other \in DOMAIN sessions \ {sid} :
                         other \in DOMAIN sessions' /\ sessions'[other] = sessions[other]]_vars

\* a lookup has returned an entry that was idle for exactly the timeout
C20_Witness ==
    /\ ret.op = "getSession"
    /\ ret.sid \in DOMAIN sessions
    /\ ret.val = sessions[ret.sid]
    /\ now - ret.val.lastUsedAt = TimeoutMs

(***************************************************************************)
(* The store with its sweep timer (src/src/session.ts:46-53, 156-163,      *)
(* 217-222): the clock and the timer run on their own, callers make a      *)
(* bounded number of calls.                                                *)
(***************************************************************************)
MaxCalls == 3
MaxClock == 4

InitSweep ==
    /\ sessions = <<>>
    /\ enabled = TRUE
    /\ tierConfigs = TestTierConfigs
    /\ now = 0
    /\ cleanupInterval = TRUE
    /\ ret = NoRet
    /\ req = <<>>
    /\ budget = MaxCalls
    /\ rules = NoRules
    /\ llm = NoLLM

\* the clock advances by one timeout's worth
ClockTick ==
    /\ now < MaxClock
    /\ now' = now + 1
    /\ UNCHANGED <<sessions, enabled, tierConfigs, cleanupInterval, ret, req, budget, rules, llm>>

\* the setInterval callback of the constructor fires: one pass of cleanup
SweepPass ==
    /\ cleanupInterval
    /\ sessions' = CleanupMap(sessions, now)
    /\ ret' = [op |-> "cleanup", sid |-> EmptyId, val |-> Undefined]
    /\ UNCHANGED <<enabled, tierConfigs, now, cleanupInterval, req, budget, rules, llm>>

\* a call that refreshes a session is made while the clock can still run past its timeout
NextSweep ==
    \/ ClockTick
    \/ SweepPass
    \/ \E sid \in SessionIds : \E p \in {q \in Pins(tierConfigs) : q.tier = "SIMPLE"} :
           now + TimeoutMs < MaxClock /\ SetSession(sid, p.model, p.tier)
    \/ \E sid \in SessionIds : now + TimeoutMs < MaxClock /\ TouchSession(sid)
    \/ \E sid \in SessionIds : \E hash \in Hashes : RecordRequestHash(sid, hash)
    \/ Close

\* the timer fires as long as it is set, and time passes
SpecSweep == InitSweep /\ [][NextSweep]_vars /\ WF_vars(ClockTick) /\ WF_vars(SweepPass)

(***************************************************************************)
(* deriveSessionId (src/src/session.ts:250-262).  A content is a string,   *)
(* [text |-> ...], or an array of strings, [parts |-> ...].  The SHA-256   *)
(* prefix is stood for by a 32-bit checksum of the hashed characters: a    *)
(* fixed many-to-one function of the string, and of nothing else.          *)
(***************************************************************************)
MaxMessages == 3
MaxDerivations == 2

Messages ==
    [role : {"user"}, content : {[text |-> <<"h", "i">>],
                                 [text |-> <<"y", "o">>],
                                 [parts |-> <<<<"h", "i">>>>],
                                 [text |-> <<"[", "\"", "h", "i", "\"", "]">>]}]
    \cup {[role |-> "system", content |-> [text |-> <<"h", "i">>]],
          [role |-> "assistant", content |-> [text |-> <<"y", "o">>]]}

Conversations == UNION {[1..n -> Messages] : n \in 0..MaxMessages}

\* JSON.stringify of an array of strings
RECURSIVE JSONStringifyItems(_)
JSONStringifyItems(parts) ==
    IF parts = <<>> THEN <<>>
    ELSE <<"\"">> \o Head(parts) \o <<"\"">>
         \o (IF Len(parts) > 1 THEN <<",">> ELSE <<>>) \o JSONStringifyItems(Tail(parts))

\* createHash("sha256").update(content).digest("hex").slice(0, 8)
Sha256Prefix(content) == [hex |-> simpleHash(content)]

\* variant: the last user message is the anchor
deriveSessionId_LastUser(messages) ==
    LET users == {i \in 1..Len(messages) : messages[i].role = "user"}
    IN  IF users = {} THEN Undefined
        ELSE LET firstUser == messages[CHOOSE i \in users : \A j \in users : i >= j]
                 content   == IF "text" \in DOMAIN firstUser.content
                              THEN firstUser.content.text
                              ELSE <<"[">> \o JSONStringifyItems(firstUser.content.parts) \o <<"]">>
             IN  Sha256Prefix(content)

deriveSessionId(messages) ==
    LET users == {i \in 1..Len(messages) : messages[i].role = "user"}
    IN  IF users = {} THEN Undefined
        ELSE LET firstUser == messages[CHOOSE i \in users : \A j \in users : i <= j]
                 content   == IF "text" \in DOMAIN firstUser.content
                              THEN firstUser.content.text
                              ELSE <<"[">> \o JSONStringifyItems(firstUser.content.parts) \o <<"]">>
             IN  Sha256Prefix(content)

InitDerive ==
    /\ sessions = <<>>
    /\ enabled = TRUE
    /\ tierConfigs = TestTierConfigs
    /\ now = 0
    /\ cleanupInterval = FALSE
    /\ ret = NoRet
    /\ req = <<>>
    /\ budget = MaxDerivations
    /\ rules = NoRules
    /\ llm = NoLLM

DeriveSessionId(messages) ==
    /\ Step
    /\ ret' = [op |-> "deriveSessionId", messages |-> messages, val |-> deriveSessionId(messages)]
    /\ UNCHANGED <<sessions, enabled, tierConfigs, now, cleanupInterval, req, rules, llm>>

NextDerive == \E messages \in Conversations : DeriveSessionId(messages)

SpecDerive == InitDerive /\ [][NextDerive]_vars


(***************************************************************************)
(* The rule classifier run on two user texts with one token estimate.  A   *)
(* text is a selection of at most MaxAgentic of the AgenticFragments, in   *)
(* their order; each fragment matches one agentic-task keyword and no      *)
(* keyword of another dimension.                                           *)
(***************************************************************************)
MaxAgentic == 4

AgenticFragments ==
    << <<"n", "p", "m", " ">>,
       <<"i", "n", "s", "t", "a", "l", "l", " ">>,
       <<"F", "i", "x", " ">>,
       <<"d", "e", "b", "u", "g", " ">>,
       <<"v", "e", "r", "i", "f", "y", " ">> >>

AgenticPrompts ==
    {Concat(SelectSeq([i \in 1..Len(AgenticFragments) |->
                          IF i \in chosen THEN AgenticFragments[i] ELSE <<>>],
                      LAMBDA part : part # <<>>)) :
        chosen \in {c \in SUBSET (1..Len(AgenticFragments)) : Cardinality(c) <= MaxAgentic}}

InitAgentic ==
    /\ sessions = <<>>
    /\ enabled = TRUE
    /\ tierConfigs = TestTierConfigs
    /\ now = 0
    /\ cleanupInterval = FALSE
    /\ ret = NoRet
    /\ req = <<>>
    /\ budget = 0
    /\ llm = NoLLM
    /\ \E estimatedTokens \in TokenEstimates :
           rules = [estimatedTokens |-> estimatedTokens, a |-> NotRun, b |-> NotRun]

ClassifyText(run, prompt) ==
    /\ rules # NoRules
    /\ rules[run] = NotRun
    /\ run = "b" => rules.a # NotRun
    /\ rules' = [rules EXCEPT ![run] =
                    [prompt |-> prompt,
                     result |-> classifyByRules(prompt, Undefined,
                                                rules.estimatedTokens, ScoringConfig)]]
    /\ UNCHANGED <<sessions, enabled, tierConfigs, now, cleanupInterval, ret, req, budget, llm>>

NextAgentic ==
    \E run \in Runs : \E prompt \in AgenticPrompts : ClassifyText(run, prompt)

SpecAgentic == InitAgentic /\ [][NextAgentic]_vars

\* C21: once a session is idle beyond the timeout its previous state is gone for every
\* later operation: the next setSession for that id starts a fresh entry, and the next
\* touchSession, recordRequestHash or escalateSession for it behaves as for an id the
\* store does not hold (sentinel returned, the old entry neither refreshed nor advanced).
C21_IdleTimeoutUnpins ==
    [][\A sid \in SessionIds :
          (sid \in DOMAIN sessions /\ Expired(sessions[sid], now)) =>
              LET Forgotten == sid \in DOMAIN sessions' => sessions'[sid] = sessions[sid]
              IN  /\ \A p \in Pins(tierConfigs) :
                         SetSession(sid, p.model, p.tier) =>
                             sessions'[sid] = SetSessionMap(Remove(sessions, sid), enabled, sid,
                                                            p.model, p.tier, now)[sid]
                  /\ TouchSession(sid) => Forgotten
                  /\ (\E hash \in Hashes : RecordRequestHash(sid, hash)) =>
                         (Forgotten /\ ret'.val = FALSE)
                  /\ EscalateSession(sid) => (Forgotten /\ ret'.val = Null)]_vars

\* C22: after setSession(id, m, t) on an enabled store with a non-empty id the entry of id
\* is pinned to model m and tier t: a new entry starts with requestCount 1, an empty
\* window, strikes 0 and escalated false; an existing entry gets model m and tier t and
\* its requestCount grows by exactly one.
C22_SetSessionPins ==
    [][\A sid \in PinnedIds : \A p \in Pins(tierConfigs) :
          (SetSession(sid, p.model, p.tier) /\ enabled) =>
              /\ sid \in DOMAIN sessions'
              /\ sessions'[sid].model = p.model
              /\ sessions'[sid].tier = p.tier
              /\ sid \notin DOMAIN sessions =>
                     /\ sessions'[sid].requestCount = 1
                     /\ sessions'[sid].recentHashes = <<>>
                     /\ sessions'[sid].strikes = 0
                     /\ ~sessions'[sid].escalated
              /\ sid \in DOMAIN sessions =>
                     sessions'[sid].requestCount = sessions[sid].requestCount + 1]_vars

\* C23: with the store enabled and its sweep timer running, a session that gets no further
\* setSession or touchSession is eventually removed from the map once it is idle beyond
\* the timeout, without any lookup; and after each pass of the sweep no entry idle beyond
\* the timeout remains.
C23_SweepEvictsIdle ==
    /\ [][SweepPass => \A sid \in DOMAIN sessions' : ~Expired(sessions'[sid], now)]_vars
    /\ \A sid \in SessionIds : \A count \in 1..(MaxCalls + 1) :
           (sid \in DOMAIN sessions /\ sessions[sid].requestCount = count)
               ~> \/ sid \notin DOMAIN sessions
                  \/ sessions[sid].requestCount # count
                  \/ ~cleanupInterval

\* the timer has just swept a map in which a session sat idle beyond the timeout: the idle
\* session is gone, the session pinned later is still held
C23_Witness ==
    /\ ret.op = "cleanup"
    /\ cleanupInterval
    /\ budget = MaxCalls - 2
    /\ now = MaxClock - 1
    /\ DOMAIN sessions = {"s2"}
    /\ sessions["s2"].createdAt = now - TimeoutMs

\* C24: deriveSessionId depends on the content of the first message with role "user" and
\* on nothing else: every message list with the same first user message gets the id just
\* returned, whatever precedes that message and whatever follows it, and a list without
\* a user message gets no id.
C24_DeriveSessionIdAnchor ==
    ret.op = "deriveSessionId" =>
        LET FirstUser(messages) ==
                LET users == {i \in 1..Len(messages) : messages[i].role = "user"}
                IN  IF users = {} THEN Undefined
                    ELSE messages[CHOOSE i \in users : \A j \in users : i <= j]
        IN  /\ (FirstUser(ret.messages) = Undefined) <=> (ret.val = Undefined)
            /\ \A other \in Conversations :
                   FirstUser(other) = FirstUser(ret.messages) => deriveSessionId(other) = ret.val

\* an id derived from a conversation whose first user message comes after a system message
\* and is followed by another user message with another content
C24_Witness ==
    /\ ret.op = "deriveSessionId"
    /\ Len(ret.messages) = 3
    /\ ret.messages[1].role = "system"
    /\ ret.messages[2] = [role |-> "user", content |-> [parts |-> <<<<"h", "i">>>>]]
    /\ ret.messages[3] = [role |-> "user", content |-> [text |-> <<"y", "o">>]]
    /\ ret.val = deriveSessionId(<<ret.messages[2]>>)
    /\ ret.val # deriveSessionId(<<ret.messages[3]>>)

\* C25: routing "What is the capital of France?" without a system prompt under the shipped
\* configuration gives tier SIMPLE by the rules, without a call of the fallback classifier,
\* and a confidence strictly above 0.8.
C25_ScenarioA ==
    (/\ ret.op = "route"
     /\ ret.prompt = ScenarioA
     /\ ret.systemPrompt = Undefined
     /\ req.overrides.maxTokensForceComplex = 100000) =>
        /\ ret.val # Thrown
        /\ ret.val.tier = "SIMPLE"
        /\ ret.val.method = "rules"
        /\ ~ret.trace.ranLLM
        /\ ret.val.confidence > 8000

\* C26: every confidence the rule classifier returns lies in [0, 1]; when the tier comes
\* from the boundaries the distance to the nearest boundary is not negative, the
\* confidence lies in [0.5, 1), is 0.5 exactly when the score sits on a boundary, and no
\* smaller distance calibrates to a higher confidence.
C26_ConfidenceRange ==
    \A run \in Runs :
        (rules # NoRules /\ rules[run] # NotRun) =>
            LET result   == rules[run].result
                userText == UserText(rules.prompt, rules[run].systemPrompt)
                override == ReasoningOverride(Matches(userText, ScoringConfig.reasoningKeywords))
                distance == BoundaryTier(result.score, ScoringConfig.tierBoundaries).distance
                steep    == ScoringConfig.confidenceSteepness
            IN  /\ 0 <= result.confidence
                /\ result.confidence <= ConfidenceScale
                /\ ~override =>
                       /\ distance >= 0
                       /\ result.confidence = calibrateConfidence(distance, steep)
                       /\ 2 * result.confidence >= ConfidenceScale
                       /\ result.confidence < ConfidenceScale
                       /\ (distance = 0) <=> (2 * result.confidence = ConfidenceScale)
                       /\ \A d \in 0..distance :
                              calibrateConfidence(d, steep) <= result.confidence

\* a run scored exactly on the boundary between SIMPLE and MEDIUM: confidence 0.5, ambiguous
C26_Witness ==
    /\ rules # NoRules
    /\ rules.a # NotRun
    /\ rules.a.result.score = ScoringConfig.tierBoundaries.simpleMedium
    /\ 2 * rules.a.result.confidence = ConfidenceScale
    /\ rules.a.result.tier = NullTier

\* C27: in every reachable state the fingerprint window of every session holds at most 3
\* entries, and they are the fingerprints recorded last, in the order they were recorded:
\* recordRequestHash appends its fingerprint and drops the oldest one from a full window,
\* and no other operation changes the window of a session it keeps.
C27_WindowBounded ==
    /\ [](\A sid \in DOMAIN sessions : Len(sessions[sid].recentHashes) <= WindowSize)
    /\ [][\A sid \in DOMAIN sessions :
             sid \in DOMAIN sessions' =>
                 LET old    == sessions[sid].recentHashes
                     new    == sessions'[sid].recentHashes
                     Last(s) == SubSeq(s, Len(s) - Min(Len(s), WindowSize) + 1, Len(s))
                 IN  /\ \A hash \in Hashes :
                            RecordRequestHash(sid, hash) => new = Last(Append(old, hash))
                     /\ (~\E hash \in Hashes : RecordRequestHash(sid, hash)) => new = old]_vars

\* four identical fingerprints in a row were recorded on one session: the window is full
\* and the first of them has been dropped
C27_Witness ==
    \E sid \in DOMAIN sessions :
        /\ sessions[sid].recentHashes = <<"aaa", "aaa", "aaa">>
        /\ sessions[sid].strikes = 3
        /\ ret.op = "recordRequestHash"

\* C28: in every reachable state the strike counter of every session is 0, 1 or 2, also
\* for a session pinned at REASONING and for a session that has escalated and keeps
\* getting the same fingerprint.
C28_StrikesBounded ==
    \A sid \in DOMAIN sessions : sessions[sid].strikes \in 0..StrikeTrigger


\* the tier names the answer text names, in any casing, as whole words
NamedTiers(answer) == {tier \in Tiers : HasWord(ToUpperCase(answer), TierWord[tier])}

\* the answer text of an upstream response that carries one
AnswerOf(upstream) ==
    IF /\ upstream.kind = "response"
       /\ upstream.ok
       /\ upstream.body # InvalidJson
       /\ ResponseContent(upstream.body) # Thrown
       /\ "choices" \in DOMAIN upstream.body
       /\ upstream.body.choices # <<>>
       /\ "message" \in DOMAIN upstream.body.choices[1]
       /\ "content" \in DOMAIN upstream.body.choices[1].message
    THEN [text |-> upstream.body.choices[1].message.content.text]
    ELSE Thrown

\* C29: the fallback classifier resolves the upstream answer text to a tier by
\* case-insensitive matching in the priority order REASONING > COMPLEX > MEDIUM > SIMPLE.
\* When the text names several tiers the tier returned is the highest-priority one
\* named, when it names exactly one that one is returned, and when it names none the
\* result is MEDIUM.  A tier is named when its name occurs as a whole word.
C29_ParseTierPriority ==
    (ret.op = "classifyByLLM" /\ ret.called /\ AnswerOf(ret.upstream) # Thrown) =>
        LET named == NamedTiers(AnswerOf(ret.upstream).text)
        IN  /\ named = {} => ret.val.tier = "MEDIUM"
            /\ named # {} =>
                   /\ ret.val.tier \in named
                   /\ \A tier \in named :
                          IndexOf(TIER_ORDER, tier) <= IndexOf(TIER_ORDER, ret.val.tier)

\* an answer in mixed case naming COMPLEX and REASONING was resolved to REASONING
C29_Witness ==
    /\ ret.op = "classifyByLLM"
    /\ ret.called
    /\ AnswerOf(ret.upstream) # Thrown
    /\ NamedTiers(AnswerOf(ret.upstream).text) = {"COMPLEX", "REASONING"}
    /\ AnswerOf(ret.upstream).text # ToUpperCase(AnswerOf(ret.upstream).text)
    /\ ret.val.tier = "REASONING"


\* how many agentic-task keywords the lower-cased text contains
AgenticMatchCount(prompt) ==
    Cardinality({k \in 1..Len(ScoringConfig.agenticTaskKeywords) :
                    Includes(ToLowerCase(prompt), ToLowerCase(ScoringConfig.agenticTaskKeywords[k]))})

\* the agentic score, in tenths, that the thresholds give a match count
AgenticScoreOf(matchCount) ==
    IF matchCount >= 4 THEN 10 ELSE IF matchCount = 3 THEN 6 ELSE IF matchCount >= 1 THEN 2 ELSE 0

\* the two results agree on the score of every dimension but agenticTask
OtherDimensionsEqual(ra, rb) ==
    /\ Len(ra.dimensions) = Len(rb.dimensions)
    /\ \A i \in 1..Len(ra.dimensions) :
           /\ ra.dimensions[i].name = rb.dimensions[i].name
           /\ ra.dimensions[i].name # "agenticTask" =>
                  ra.dimensions[i].score = rb.dimensions[i].score

\* C30 (as claimed): the agentic-intent signal does not take part in the tier decision.
\* Two user texts classified with the same token estimate, whose dimension scores other
\* than agenticTask are equal, get the same weighted score, the same tier and the same
\* confidence from classifyByRules; their agenticScore is the one the thresholds give
\* (1.0 for 4 or more matches, 0.6 for 3, 0.2 for 1 or 2, else 0).
C30_AgenticNotInTierDecision ==
    (/\ rules # NoRules
     /\ rules.a # NotRun
     /\ rules.b # NotRun
     /\ OtherDimensionsEqual(rules.a.result, rules.b.result)) =>
        /\ rules.a.result.score = rules.b.result.score
        /\ rules.a.result.tier = rules.b.result.tier
        /\ rules.a.result.confidence = rules.b.result.confidence
        /\ rules.a.result.agenticScore = AgenticScoreOf(AgenticMatchCount(rules.a.prompt))
        /\ rules.b.result.agenticScore = AgenticScoreOf(AgenticMatchCount(rules.b.prompt))


(***************************************************************************)
(* escalateSession with every tier string and tier configuration its      *)
(* signature admits: a session pinned with a tier outside the tier order,  *)
(* and a configuration record that lacks the upper tiers.                  *)
(***************************************************************************)
\* a tier string that is not in the tier order
UnorderedTier == "ECO"

\* a configuration record without COMPLEX and REASONING
PartialTierConfigs == [tier \in {"SIMPLE", "MEDIUM"} |-> TestTierConfigs[tier]]

\* (model, tier) pairs of setSession(sessionId: string, model: string, tier: string)
EscalationPins ==
    {[model |-> TestTierConfigs[tier].primary, tier |-> tier] : tier \in Tiers}
        \cup {[model |-> "custom-model", tier |-> UnorderedTier]}

InitEscalate ==
    /\ sessions = <<>>
    /\ enabled = TRUE
    /\ tierConfigs \in {TestTierConfigs, PartialTierConfigs}
    /\ now = 0
    /\ cleanupInterval = TRUE
    /\ ret = NoRet
    /\ req = <<>>
    /\ budget = MaxSteps
    /\ rules = NoRules
    /\ llm = NoLLM

NextEscalate ==
    \/ \E sid \in PinnedIds : \E p \in EscalationPins : SetSession(sid, p.model, p.tier)
    \/ \E sid \in PinnedIds : \E hash \in Hashes : RecordRequestHash(sid, hash)
    \/ \E sid \in SessionIds : EscalateSession(sid)

SpecEscalate == InitEscalate /\ [][NextEscalate]_vars


(***************************************************************************)
(* The rule classifier on user texts whose weighted scores spread over all *)
(* four boundary intervals with at most one reasoning keyword.  A text is  *)
(* a selection of the TieringFragments, in their order.                    *)
(***************************************************************************)
TieringFragments ==
    << <<"c", "l", "a", "s", "s", " ", "i", "m", "p", "o", "r", "t", " ">>,
       <<"P", "r", "o", "v", "e", " ">>,
       <<"a", "l", "g", "o", "r", "i", "t", "h", "m", " ", "k", "u", "b", "e", "r", "n", "e", "t", "e", "s", " ">>,
       <<"f", "i", "r", "s", "t", " ", "s", "t", "o", "r", "y", " ", "t", "h", "e", "n", " ">>,
       <<"?", "?", "?", "?">>,
       <<"q", "u", "a", "n", "t", "u", "m", " ", "f", "p", "g", "a", " ">> >>

TieringPrompts ==
    {Concat(SelectSeq([i \in 1..Len(TieringFragments) |->
                          IF i \in chosen THEN TieringFragments[i] ELSE <<>>],
                      LAMBDA part : part # <<>>)) :
        chosen \in SUBSET (1..Len(TieringFragments))}

InitTiering ==
    /\ sessions = <<>>
    /\ enabled = TRUE
    /\ tierConfigs = TestTierConfigs
    /\ now = 0
    /\ cleanupInterval = FALSE
    /\ ret = NoRet
    /\ req = <<>>
    /\ budget = 0
    /\ llm = NoLLM
    /\ \E prompt \in TieringPrompts : \E estimatedTokens \in TokenEstimates :
           rules = [prompt |-> prompt, estimatedTokens |-> estimatedTokens,
                    a |-> NotRun, b |-> NotRun]

SpecTiering == InitTiering /\ [][NextRules]_vars


(***************************************************************************)
(* Two sessions under every interleaving of look-ups, pins, touches,       *)
(* clears and sweep passes with the passing of time.                       *)
(***************************************************************************)
NextEvict ==
    \/ \E sid \in SessionIds : GetSession(sid)
    \/ \E sid \in SessionIds : SetSession(sid, TestTierConfigs.SIMPLE.primary, "SIMPLE")
    \/ \E sid \in SessionIds : TouchSession(sid)
    \/ \E sid \in SessionIds : ClearSession(sid)
    \/ ClearAll
    \/ Cleanup
    \/ \E d \in 1..(TimeoutMs + 1) : Tick(d)

SpecEvict == Init /\ [][NextEvict]_vars


(***************************************************************************)
(* The session journal (SessionJournal): per session a list of entries,   *)
(* trimmed by age and by count on every record call.  One unit of time is  *)
(* half the maximum age.  req holds the journal object: its configuration, *)
(* its journals, and, for the properties, every entry ever pushed.         *)
(***************************************************************************)
MaxJournalCalls == 5
MaxAgeMs == 2

\* new SessionJournal(config): a small maxEntries, maxEntries: 0, and a short maxAgeMs
JournalConfigs ==
    {[maxEntries |-> 2, maxAgeMs |-> MaxAgeMs],
     [maxEntries |-> 0, maxAgeMs |-> MaxAgeMs],
     [maxEntries |-> 3, maxAgeMs |-> 1]}

\* the events argument of record: string[]
EventLists == {<<>>, <<"Created login component">>, <<"Fixed auth bug">>,
               <<"Created login component", "Fixed auth bug">>}

\* Array.prototype.slice(start), start negative, zero or positive
SliceFrom(seq, start) ==
    LET from == IF start < 0 THEN Max(Len(seq) + start, 0) ELSE Min(start, Len(seq))
    IN  SubSeq(seq, from + 1, Len(seq))

\* journal.filter((e) => e.timestamp > cutoff).slice(-this.config.maxEntries)
Trimmed(journal, config, t) ==
    LET cutoff == t - config.maxAgeMs
    IN  SliceFrom(SelectSeq(journal, LAMBDA e : e.timestamp > cutoff), 0 - config.maxEntries)

\* the entries record pushes
Pushed(events, model, t) ==
    [i \in 1..Len(events) |-> [timestamp |-> t, action |-> events[i], model |-> model]]

\* record: the journals it leaves
record(journals, config, sid, events, model, t) ==
    IF sid = EmptyId \/ events = <<>> THEN journals
    ELSE LET journal == IF sid \in DOMAIN journals THEN journals[sid] ELSE <<>>
         IN  Put(journals, sid, Trimmed(journal \o Pushed(events, model, t), config, t))

\* getEntries: this.journals.get(sessionId) || []
getEntries(journals, sid) == IF sid \in DOMAIN journals THEN journals[sid] ELSE <<>>

\* format: null for no or an empty journal, else one line per entry, in order
format(journals, sid) ==
    IF sid \notin DOMAIN journals \/ journals[sid] = <<>> THEN Null
    ELSE [header |-> "[Session Memory - Key Actions]",
          lines  |-> [i \in 1..Len(journals[sid]) |->
                         [time |-> journals[sid][i].timestamp,
                          action |-> journals[sid][i].action]]]

InitJournal ==
    /\ sessions = <<>>
    /\ enabled = TRUE
    /\ tierConfigs = TestTierConfigs
    /\ now = 0
    /\ cleanupInterval = FALSE
    /\ ret = NoRet
    /\ budget = MaxJournalCalls
    /\ rules = NoRules
    /\ llm = NoLLM
    /\ \E config \in JournalConfigs : req = [config |-> config, journals |-> <<>>, pushed |-> <<>>]

RecordEvents(sid, events, model) ==
    /\ Step
    /\ req' = [req EXCEPT !.journals = record(req.journals, req.config, sid, events, model, now),
                          !.pushed = IF sid = EmptyId THEN @ ELSE @ \o Pushed(events, model, now)]
    /\ ret' = [op |-> "record", sid |-> sid, events |-> events, val |-> Undefined]
    /\ UNCHANGED <<sessions, enabled, tierConfigs, now, cleanupInterval, rules, llm>>

GetEntries(sid) ==
    /\ Step
    /\ ret' = [op |-> "getEntries", sid |-> sid, val |-> getEntries(req.journals, sid)]
    /\ UNCHANGED <<sessions, enabled, tierConfigs, now, cleanupInterval, req, rules, llm>>

Format(sid) ==
    /\ Step
    /\ ret' = [op |-> "format", sid |-> sid, val |-> format(req.journals, sid)]
    /\ UNCHANGED <<sessions, enabled, tierConfigs, now, cleanupInterval, req, rules, llm>>

NextJournal ==
    \/ \E sid \in {"s1", EmptyId} : \E events \in EventLists :
           \E model \in {Undefined, [name |-> "gpt-4"]} : RecordEvents(sid, events, model)
    \/ GetEntries("s1")
    \/ Format("s1")
    \/ \E d \in 1..(MaxAgeMs + 1) : Tick(d)

SpecJournal == InitJournal /\ [][NextJournal]_vars


\* C31: whenever escalateSession returns null (unknown session, session already at
\* REASONING, pinned tier not in the tier order, no configuration for the next tier) the
\* store is left unchanged: the same sessions are held and every field of every entry,
\* tier, model, strikes and escalated flag among them, keeps its previous value.
C31_RefusedEscalationChangesNothing ==
    [][\A sid \in SessionIds :
          (EscalateSession(sid) /\ ret'.val = Null) => sessions' = sessions]_vars

\* the reasons escalateSession has returned null for, each on a step that found the
\* session with two strikes where it was known
C31_RefusedFor(reason) ==
    /\ ret.op = "escalateSession"
    /\ ret.val = Null
    /\ CASE reason = "unknown"  -> ret.sid \notin DOMAIN sessions
         [] reason = "ceiling"  -> /\ ret.sid \in DOMAIN sessions
                                   /\ sessions[ret.sid].tier = "REASONING"
                                   /\ sessions[ret.sid].strikes = 2
         [] reason = "noOrder"  -> /\ ret.sid \in DOMAIN sessions
                                   /\ sessions[ret.sid].tier = UnorderedTier
                                   /\ sessions[ret.sid].strikes = 2
         [] reason = "noConfig" -> /\ ret.sid \in DOMAIN sessions
                                   /\ sessions[ret.sid].tier = "MEDIUM"
                                   /\ tierConfigs = PartialTierConfigs
                                   /\ sessions[ret.sid].strikes = 2

\* a refused escalation at the ceiling that found two strikes and left them
C31_Witness == C31_RefusedFor("ceiling")


\* the distinct reasoning keywords that occur in the lower-cased user text
DistinctReasoningKeywords(prompt) ==
    {kw \in Range(ScoringConfig.reasoningKeywords) : Includes(ToLowerCase(prompt), ToLowerCase(kw))}

\* the result is the one the boundaries give its weighted score
TieredByBoundaries(result) ==
    LET mapped     == BoundaryTier(result.score, ScoringConfig.tierBoundaries)
        confidence == calibrateConfidence(mapped.distance, ScoringConfig.confidenceSteepness)
    IN  /\ result.confidence = confidence
        /\ result.tier = IF confidence < ScoringConfig.confidenceThreshold
                         THEN NullTier ELSE mapped.tier

\* C32 (as claimed): the REASONING override counts distinct keywords.  A user text in
\* which fewer than 2 distinct reasoning keywords occur (only "theorem", say) is not
\* forced to REASONING: it is tiered by its weighted score against the boundaries, also
\* when the configured keyword list holds a keyword more than once.
C32_OverrideCountsDistinctKeywords ==
    \A run \in Runs :
        (/\ rules # NoRules
         /\ rules[run] # NotRun
         /\ Cardinality(DistinctReasoningKeywords(rules.prompt)) < 2) =>
            TieredByBoundaries(rules[run].result)


\* the tier whose boundary interval contains the weighted score
IntervalTier(score) ==
    IF score < ScoringConfig.tierBoundaries.simpleMedium THEN "SIMPLE"
    ELSE IF score < ScoringConfig.tierBoundaries.mediumComplex THEN "MEDIUM"
    ELSE IF score < ScoringConfig.tierBoundaries.complexReasoning THEN "COMPLEX"
    ELSE "REASONING"

\* the reasoning override does not apply to the classified text
NoOverride ==
    Len(Matches(ToLowerCase(rules.prompt), ScoringConfig.reasoningKeywords)) < 2

\* C33: when the reasoning override does not apply, classifyByRules maps the weighted
\* score to the tier whose boundary interval contains it (below simpleMedium SIMPLE,
\* below mediumComplex MEDIUM, below complexReasoning COMPLEX, otherwise REASONING), and
\* it returns the null (ambiguous) tier exactly when the calibrated confidence is below
\* confidenceThreshold.
C33_TierByInterval ==
    \A run \in Runs :
        (rules # NoRules /\ rules[run] # NotRun /\ NoOverride) =>
            /\ rules[run].result.tier = NullTier <=>
                   rules[run].result.confidence < ScoringConfig.confidenceThreshold
            /\ rules[run].result.tier # NullTier =>
                   rules[run].result.tier = IntervalTier(rules[run].result.score)

\* a text with one reasoning keyword was tiered REASONING by its weighted score
C33_Witness ==
    /\ rules # NoRules
    /\ rules.a # NotRun
    /\ NoOverride
    /\ rules.a.result.score >= ScoringConfig.tierBoundaries.complexReasoning
    /\ rules.a.result.tier = "REASONING"
    /\ rules.a.result.confidence >= ScoringConfig.confidenceThreshold


\* the request of the last route call was too long for classification
RoutedLarge ==
    EstimateTokens(ret.prompt, ret.systemPrompt) > req.overrides.maxTokensForceComplex

\* the tier the rule classifier gives the request of the last route call
RoutedRuleTier ==
    classifyByRules(ret.prompt, ret.systemPrompt,
                    EstimateTokens(ret.prompt, ret.systemPrompt), ScoringConfig).tier

\* C34: route() invokes the fallback classifier, and so the upstream call, only when the
\* rule classifier returned a null tier.  The decision's method is "llm" exactly in that
\* case and "rules" whenever the rule classifier or the large-context override decided
\* the tier.
C34_FallbackOnlyWhenAmbiguous ==
    (ret.op = "route" /\ ret.val # Thrown) =>
        LET ambiguous == ~RoutedLarge /\ RoutedRuleTier = NullTier
        IN  /\ ret.trace.ranLLM <=> ambiguous
            /\ ret.trace.called => ambiguous
            /\ ret.upstream # NotCalled => ambiguous
            /\ ret.val.method = IF ambiguous THEN "llm" ELSE "rules"
            /\ ~ambiguous => llm.cache = ret.cacheBefore

\* a request the rules tiered SIMPLE was routed by the rules, without the fallback
\* classifier, after an ambiguous one had gone upstream
C34_Witness ==
    /\ ret.op = "route"
    /\ ~RoutedLarge
    /\ RoutedRuleTier = "SIMPLE"
    /\ ret.val.method = "rules"
    /\ ~ret.trace.ranLLM
    /\ ret.upstream = NotCalled
    /\ llm.cache # <<>>


\* the cache key of a prompt: the fingerprint of its truncation
CacheKeyOf(prompt) == simpleHash(Slice(prompt, llm.config.truncationChars))

\* the cache holds an entry for the prompt whose time-to-live has not elapsed
Unexpired(prompt) ==
    /\ CacheKeyOf(prompt) \in DOMAIN llm.cache
    /\ now < llm.cache[CacheKeyOf(prompt)].expires

\* C35: a fallback classification whose truncated prompt has an unexpired cache entry
\* returns the cached tier without an upstream call and leaves the cache as it was.  An
\* entry expires one time-to-live after the classification that wrote it and nothing
\* extends it, so once that time has elapsed the entry is not served: the classification
\* of its prompt goes upstream.  A classification makes at most one upstream call: the
\* one outcome of that call decides its result, a failed call gives the default at once.
C35_CacheServesUntilExpiry ==
    [][/\ ret'.op = "classifyByLLM" =>
              /\ Unexpired(ret'.prompt) =>
                     /\ ~ret'.called
                     /\ ret'.upstream = NotCalled
                     /\ ret'.val.tier = llm.cache[CacheKeyOf(ret'.prompt)].tier
                     /\ llm' = llm
              /\ ~Unexpired(ret'.prompt) =>
                     /\ ret'.called
                     /\ ret'.upstream \in Upstreams
                     /\ (ret'.upstream.kind = "rejects" \/ ~ret'.upstream.ok) =>
                            /\ ret'.val = [tier |-> "MEDIUM", confidence |-> DefaultConfidence]
                            /\ llm' = llm
       /\ \A key \in DOMAIN llm.cache :
              \/ key \notin DOMAIN llm'.cache
              \/ llm'.cache[key] = llm.cache[key]
              \/ /\ ret'.op = "classifyByLLM"
                 /\ ret'.called
                 /\ key = CacheKeyOf(ret'.prompt)
                 /\ llm.cache[key].expires <= now
                 /\ llm'.cache[key].expires = now + llm.config.cacheTtlMs
       /\ \A key \in DOMAIN llm'.cache \ DOMAIN llm.cache :
              llm'.cache[key].expires = now + llm.config.cacheTtlMs]_vars

\* a classification served from the cache some time after the entry was written
C35_Witness ==
    /\ ret.op = "classifyByLLM"
    /\ ~ret.called
    /\ now > 0
    /\ CacheKeyOf(ret.prompt) \in DOMAIN llm.cache
    /\ llm.cache[CacheKeyOf(ret.prompt)].expires > now
    /\ ret.val.tier = llm.cache[CacheKeyOf(ret.prompt)].tier
    /\ ret.val.tier # "MEDIUM"


\* C36: a SessionEntry is removed from the store only by clearSession or clearAll, or
\* because it is idle beyond the timeout.  Whatever the interleaving of sweep passes with
\* getSession, setSession and touchSession calls, a session that a step removes was
\* either cleared by that step or had now - lastUsedAt > timeoutMs when the step began;
\* the sweep and getSession never remove an entry with now - lastUsedAt <= timeoutMs.
C36_RemovedOnlyWhenClearedOrIdle ==
    [][\A sid \in DOMAIN sessions :
          /\ sid \notin DOMAIN sessions' =>
                 \/ ClearSession(sid)
                 \/ ClearAll
                 \/ now - sessions[sid].lastUsedAt > TimeoutMs
          /\ (now - sessions[sid].lastUsedAt <= TimeoutMs /\ (Cleanup \/ GetSession(sid))) =>
                 (sid \in DOMAIN sessions' /\ sessions'[sid] = sessions[sid])]_vars

\* getSession has found a session at the very limit of its idle time, created longer
\* ago than the timeout, and has returned it and kept it
C36_Witness ==
    /\ ret.op = "getSession"
    /\ ret.sid \in DOMAIN sessions
    /\ ret.val = sessions[ret.sid]
    /\ now - sessions[ret.sid].lastUsedAt = TimeoutMs
    /\ now - sessions[ret.sid].createdAt > TimeoutMs


\* seq is the end of all: the last Len(seq) elements of all, in their order
IsSuffix(seq, all) ==
    /\ Len(seq) <= Len(all)
    /\ seq = SubSeq(all, Len(all) - Len(seq) + 1, Len(all))

\* C37 (as claimed): after any sequence of record calls a session's journal holds at most
\* maxEntries entries, and they are the most recently recorded ones in recording order
\* (the oldest are dropped first); a record call with an empty session id or an empty
\* event list changes nothing.
C37_JournalBounded ==
    /\ [](\A sid \in DOMAIN req.journals :
              /\ Len(req.journals[sid]) <= req.config.maxEntries
              /\ IsSuffix(req.journals[sid], req.pushed))
    /\ [][(ret'.op = "record" /\ (ret'.sid = EmptyId \/ ret'.events = <<>>)) =>
              req'.journals = req.journals]_vars


\* C38 (as claimed): the journal retains no entry older than maxAgeMs.  getEntries and
\* format never return an entry whose age exceeds the configured maximum age, whatever
\* time has passed since the last record call for that session.
C38_NoStaleEntries ==
    /\ ret.op = "getEntries" =>
           \A i \in 1..Len(ret.val) : now - ret.val[i].timestamp <= req.config.maxAgeMs
    /\ (ret.op = "format" /\ ret.val # Null) =>
           \A i \in 1..Len(ret.val.lines) : now - ret.val.lines[i].time <= req.config.maxAgeMs


\* C39 (as claimed): the degraded MEDIUM default is never written to the
\* fallback-classifier cache.  A classification whose upstream call threw or returned a
\* non-OK status, or whose response contained no tier name, leaves the cache unchanged,
\* so a later request with the same prompt is classified afresh.
C39_DefaultNeverCached ==
    [][(ret'.op = "classifyByLLM" /\ ret'.called /\ UpstreamFailed(ret'.upstream)) =>
           llm'.cache = llm.cache]_vars


\* C40: getSession on a live (non-expired) entry is a pure read: it changes neither
\* lastUsedAt nor requestCount nor any other field, so look-ups alone never extend a
\* session's lifetime.  Only setSession and touchSession move an entry's lastUsedAt, and
\* touchSession changes nothing but lastUsedAt and requestCount: pinned model, tier,
\* strikes, window, escalated flag and creation time stay as they were.
C40_LookupIsPureRead ==
    [][\A sid \in DOMAIN sessions :
          /\ ((\E any \in SessionIds \cup {EmptyId} : GetSession(any))
                  /\ now - sessions[sid].lastUsedAt <= TimeoutMs) =>
                 (sid \in DOMAIN sessions' /\ sessions'[sid] = sessions[sid])
          /\ (sid \in DOMAIN sessions' /\ sessions'[sid].lastUsedAt # sessions[sid].lastUsedAt) =>
                 \/ TouchSession(sid)
                 \/ \E p \in Pins(tierConfigs) : SetSession(sid, p.model, p.tier)
          /\ TouchSession(sid) =>
                 /\ sid \in DOMAIN sessions'
                 /\ sessions'[sid] = [sessions[sid] EXCEPT !.lastUsedAt = now,
                                                          !.requestCount = @ + 1]
                 /\ \A other \in DOMAIN sessions \ {sid} :
                        other \in DOMAIN sessions' /\ sessions'[other] = sessions[other]]_vars

\* a look-up some time after the last use has returned a session that carries a
\* fingerprint and more than one request, with its lastUsedAt still in the past
C40_Witness ==
    /\ ret.op = "getSession"
    /\ ret.sid \in DOMAIN sessions
    /\ ret.val = sessions[ret.sid]
    /\ sessions[ret.sid].lastUsedAt < now
    /\ sessions[ret.sid].requestCount > 1
    /\ sessions[ret.sid].recentHashes # <<>>
====
